---- MODULE Spec2Model ----
(***************************************************************************)
(* Pagination crawler: the retry policy (utils.retry_on_exception), the    *)
(* page scraper with its paginated traversal, next-link resolver, text     *)
(* cleaning and content-type detection (page_scraper.PageScraper), the     *)
(* callers WebCrawler.setup / crawl_urls / crawl_url (main.py), the plain  *)
(* WebCrawler (crawler.py: setup, crawl_urls, cleanup), the merge of page  *)
(* records (data_processor.DataProcessor), the handlers of the API server  *)
(* (api_server.py), the scroll loop PageScraper._scroll_page and the       *)
(* plugin crawler (top-level crawler.py).                                  *)
(*                                                                         *)
(* A behaviour is a command-line run of a batch of URLs, one or two API    *)
(* requests served concurrently, a call of _scroll_page on a page, or a    *)
(* direct call of one of the other methods on an argument of a bounded     *)
(* set.                                                                    *)
(*                                                                         *)
(* Strings are sequences of one-character strings, a Python dict is a      *)
(* record, a Python list is a sequence.  Exceptions are named by their     *)
(* class.  Interrupts (BaseException that is no Exception) are outside     *)
(* the model, and so is a negative RETRY_COUNT.                            *)
(***************************************************************************)
EXTENDS Integers, Sequences, FiniteSets, TLC

\* ---------------------------------------------------------------- bounds
\* Longest next-link chain of a site (number of distinct pages).
MaxChain == 3
\* Largest retry budget (config.RETRY_COUNT) the model draws.
MaxRetry == 2
\* Longest page sequence handed to a direct call of merge_paginated_data.
MaxPages == 2
\* Most pieces of an input string of _clean_text.
MaxTokens == 3
\* Most patterns of the next-link resolver that find an element on a page
\* handed to a direct call of the resolver.
MaxCandidates == 2
\* Most URLs handed to the plain crawler (crawler.py).
MaxUrls == 2
\* Most loads of further content by which a page that ends answers scrolls.
MaxGrow == 3
\* The latest driver call of one _scroll_page call that can raise.
MaxCalls == 4
\* Most plugins of one registry of the plugin crawler.
MaxPlugins == 2

\* ------------------------------------------------------------- constants
\* retry_on_exception(delay: float = 1.0): no caller overrides it.
delay == 1

None == 0
NoError == [kind |-> "none", at |-> 0]
URLS == 1..MaxChain
\* config.MAX_PAGE_DEPTH is drawn from 1 .. MaxChain + 2, so that a depth cap
\* below, at and above every chain length is covered.
Depths == 1..(MaxChain + 2)
Retries == 0..MaxRetry
\* config.WAIT_BETWEEN_PAGES: (min_wait, max_wait), an interval that leaves
\* room below and inside.
Waits == {<<1, 2>>}

VARIABLES
    config,          \* [MAX_PAGE_DEPTH, RETRY_COUNT, WAIT_BETWEEN_PAGES]: the
                     \* configuration module
    site,            \* [len, tail, dom]: pages 1..len linked in a row, the
                     \* last one linking to tail (None, or a page of the
                     \* chain: a cycle); dom: how a page marks up its link
    args,            \* [urls, handle_pagination]: arguments of crawl_urls;
                     \* urls[i]: validate_url accepts the i-th URL
    batch,           \* crawl_urls: [index, successful, failed], with the
                     \* history of the crawl_url calls begun and their outcomes
    pc,              \* position of the single control flow
    op,              \* the function the retry wrapper currently wraps
    attempt,         \* wrapper: loop variable `attempt`
    calls,           \* wrapper: invocations of func made by this call
    backoffs,        \* wrapper: the time.sleep durations of this call, in order
    last_exception,  \* wrapper: local `last_exception`
    current_url,     \* scrape_with_pagination: local `current_url`
    page_count,      \* scrape_with_pagination: local `page_count`
    pages_data,      \* crawl_url: local `pages_data` (the records yielded)
    merged,          \* crawl_url: <<merged_data>> once merge was called
    saved,           \* the documents save_data has written
    raised,          \* the exception that left setup / crawl_url, or NoError
    end_reason,      \* history: why the traversal loop ended
    any_failure,     \* history: some attempt or resolver call has failed
    m_in,            \* merge call: the argument pages_data
    m_out,           \* merge call: <<result>> once merge_paginated_data returned
    m_pc,            \* merge call: "off" | "input" | "merged"
    m_links,         \* merge call: the list stored under "links", as ordered
    m_pages,         \* merge call: what the page dicts of the argument hold
    f_name,          \* direct call of a pure method: its name, else "none"
    f_arg,           \* direct call: the argument
    f_out,           \* direct call: the values returned so far, in order
    work,            \* history of the traversal: pages whose fetch began,
                     \* resolver calls, pacing waits, the kind of the last wait
    pace_wait,       \* history: the duration of the last pacing wait
    navigations,     \* history, kept for a traversal run on its own: the
                     \* driver.get calls made so far
    request,         \* API server: request[r] is what the r-th HTTP request
                     \* carries and what the browser does for it
    api,             \* API server: api[r] holds the locals of the handler
                     \* serving request r (crawler, results), its position
                     \* and its response
    sessions,        \* the browser sessions created so far, in order:
                     \* [owner, quit, users]
    crawler_pool,    \* api_server.crawler_pool
    document,        \* _scroll_page: the page in the browser: its
                     \* scrollHeight and how it answers further scrolls
    scroll           \* _scroll_page: its locals and position, with the
                     \* history of its driver calls

vars == <<config, site, args, batch, pc, op, attempt, calls, backoffs, last_exception,
          current_url, page_count, pages_data, merged, saved, raised,
          end_reason, any_failure, m_in, m_out, m_pc, m_links, m_pages, f_name, f_arg,
          f_out, work, pace_wait, navigations, request, api, sessions, crawler_pool,
          document, scroll>>

retryVars == <<op, attempt, calls, backoffs, last_exception>>
genVars == <<current_url, page_count>>
mergeVars == <<m_in, m_out, m_pc, m_links, m_pages>>
callVars == <<f_name, f_arg, f_out>>
histVars == <<work, pace_wait, navigations>>
cfgVars == <<config, site, args>>
apiVars == <<request, api, sessions, crawler_pool>>
scrollVars == <<document, scroll>>

\* ------------------------------------------------------- data_processor
Sep == <<"\n", "\n">>

RECURSIVE Join(_, _)
\* str.join: the strings of `strs` with `sep` between neighbours.
Join(strs, sep) ==
    IF strs = <<>> THEN <<>>
    ELSE IF Len(strs) = 1 THEN strs[1]
    ELSE strs[1] \o sep \o Join(Tail(strs), sep)

RECURSIVE Flatten(_)
\* list.extend over a sequence of lists.
Flatten(lists) ==
    IF lists = <<>> THEN <<>> ELSE lists[1] \o Flatten(Tail(lists))

Range(s) == {s[i] : i \in DOMAIN s}

\* Mutant: always the body text, no fallback to the text elements.
extract_main_content_BodyOnly(data) == data.body_text

\* DataProcessor.extract_main_content: the body text when it is not empty,
\* otherwise the text elements joined by a blank line, otherwise "".
extract_main_content(data) ==
    IF data.body_text # <<>> THEN data.body_text
    ELSE IF data.text_elements # <<>> THEN Join(data.text_elements, Sep)
    ELSE <<>>

\* Mutant: an empty content is appended too.
all_text_KeepEmpty(pages) ==
    [i \in DOMAIN pages |-> extract_main_content(pages[i])]

\* merge_paginated_data, lines 243-247: the main content of every page, in
\* order, an empty one left out (`if content: all_text.append(content)`).
all_text(pages) ==
    SelectSeq([i \in DOMAIN pages |-> extract_main_content(pages[i])],
              LAMBDA content : content # <<>>)

RECURSIVE Dedup(_)
\* A list without the later repetitions of its entries.
Dedup(lst) ==
    IF lst = <<>> THEN <<>>
    ELSE LET front == Dedup(SubSeq(lst, 1, Len(lst) - 1)) IN
         IF lst[Len(lst)] \in Range(front) THEN front
         ELSE Append(front, lst[Len(lst)])

\* Mutant: the text elements are deduplicated like the links.
all_elements_Dedup(pages) ==
    Dedup(Flatten([i \in DOMAIN pages |-> pages[i].text_elements]))

\* merge_paginated_data, lines 252-255: every page's text elements, in order.
all_elements(pages) ==
    Flatten([i \in DOMAIN pages |-> pages[i].text_elements])

\* Mutant: the list is stored as collected, set() forgotten.
list_set_NoDedup(lst) == {lst}

\* list(set(lst)): the entries of lst, each once, in an order Python does not
\* define: every such list.
list_set(lst) ==
    {l \in [1..Cardinality(Range(lst)) -> Range(lst)] : Range(l) = Range(lst)}

\* Mutant: all_links.extend is replaced by an assignment, the last page wins.
all_links_LastPage(pages) == Range(pages[Len(pages)].links)

\* merge_paginated_data, lines 260-266: list(set(all_links)) has no defined
\* order and no duplicate: the set of its entries.
all_links(pages) ==
    UNION {Range(pages[i].links) : i \in DOMAIN pages}

\* Mutant: the count is taken one short of the input length.
page_count_of_Short(pages) == Len(pages) - 1

\* merge_paginated_data, line 269: len(pages_data).
page_count_of(pages) == Len(pages)

\* Mutant: a single page already counts as paginated.
is_paginated_of_AtLeastOne(pages) == Len(pages) >= 1

\* merge_paginated_data, line 270: len(pages_data) > 1.
is_paginated_of(pages) == Len(pages) > 1

\* Mutant: the last page is the base of the document.
base_page_Last(pages) == pages[Len(pages)]

\* merge_paginated_data, line 240: pages_data[0].copy(), the base of the
\* document (its url and title are kept).
base_page(pages) == pages[1]

\* The empty dict `{}`.
EmptyDict == [k \in {} |-> 0]

\* Mutant: no guard for the empty list, a document is built from nothing.
merge_paginated_data_NoGuard(pages) ==
    [url |-> None, title |-> <<>>,
     body_text |-> Join(all_text(pages), Sep),
     text_elements |-> all_elements(pages),
     links |-> all_links(pages),
     page_count |-> page_count_of(pages),
     is_paginated |-> is_paginated_of(pages)]

\* DataProcessor.merge_paginated_data: {} for the empty list, otherwise a copy
\* of the first page with body_text, text_elements and links replaced and
\* page_count, is_paginated added.
merge_paginated_data(pages) ==
    IF pages = <<>> THEN EmptyDict
    ELSE [url |-> base_page(pages).url,
          title |-> base_page(pages).title,
          body_text |-> Join(all_text(pages), Sep),
          text_elements |-> all_elements(pages),
          links |-> all_links(pages),
          page_count |-> page_count_of(pages),
          is_paginated |-> is_paginated_of(pages)]

\* The dict objects merge_paginated_data works on are numbered: object i is
\* the dict of page i of the argument.
\* Mutant: `merged_data = pages_data[0]`, the base is the first page itself.
merged_data_Aliased(pages) == 1

\* merge_paginated_data, line 240: `.copy()` binds merged_data to a new dict,
\* none of the dicts of the argument.
merged_data(pages) == Len(pages) + 1

\* merge_paginated_data, lines 240-270: the dict objects when the call
\* returns.  The pages are only read (extract_main_content, page.get, and
\* extend on the new lists all_text, all_elements, all_links); every
\* assignment `merged_data[key] = ...` goes to the object merged_data names.
objects_after_merge(pages) ==
    IF pages = <<>> THEN <<>>
    ELSE [o \in (DOMAIN pages) \cup {merged_data(pages)} |->
              IF o = merged_data(pages) THEN merge_paginated_data(pages)
              ELSE pages[o]]

\* The dicts of the argument list after the call, in the order of the list.
pages_after_merge(pages) == [i \in DOMAIN pages |-> objects_after_merge(pages)[i]]

\* -------------------------------------------------------- the page records
PageChar(u) == IF u = 1 THEN "a" ELSE IF u = 2 THEN "b" ELSE IF u = 3 THEN "c" ELSE "d"

\* The record _extract_page_content returns for page u of the site.
PageContent(u) ==
    [url |-> u,
     title |-> <<"T", PageChar(u)>>,
     body_text |-> <<PageChar(u)>>,
     text_elements |-> << <<PageChar(u)>> >>,
     links |-> <<"home", PageChar(u)>>]

\* The page records a direct call of merge_paginated_data draws from.
MergePages ==
    [url : {1},
     title : {<<"A">>, <<"B">>},
     body_text : {<<>>, <<"a">>, <<"b">>},
     text_elements : {<<>>, << <<"x">>, <<"y">> >>},
     links : {<<>>, <<"l", "m">>, <<"m", "l", "l">>}]

MergeInputs == UNION {[1..n -> MergePages] : n \in 0..MaxPages}


\* ----------------------------------------------- page_scraper: _clean_text
\* The character U+007F: a control character that is no whitespace.
DEL == "DEL"
\* Whitespace (str.split() without argument, \s and \S of re).
Whitespace == {" ", "\t"}
\* The class [\x00-\x1F\x7F-\x9F].
ControlChars == {"\t", DEL}
\* The class [^\t\n\f <&#;] of html.unescape, as the characters it excludes.
NameStop == {"\t", "\n", "\f", " ", "<", "&", "#", ";"}

Max(S) == CHOOSE x \in S : \A y \in S : y <= x

\* text[i:].startswith(lit)
StartsWith(text, i, lit) ==
    /\ i + Len(lit) - 1 <= Len(text)
    /\ \A k \in 1..Len(lit) : text[i + k - 1] = lit[k]

RECURSIVE Find(_, _, _)
\* The first position >= i where lit occurs in text, 0 when there is none.
Find(text, i, lit) ==
    IF i > Len(text) THEN 0
    ELSE IF StartsWith(text, i, lit) THEN i
    ELSE Find(text, i + 1, lit)

RECURSIVE RunEnd(_, _, _)
\* The position after the longest run, from i, of characters outside stop.
RunEnd(text, i, stop) ==
    IF i > Len(text) \/ text[i] \in stop THEN i
    ELSE RunEnd(text, i + 1, stop)

RECURSIVE SameEnd(_, _, _)
\* The position after the longest run, from i, of the character c.
SameEnd(text, i, c) ==
    IF i > Len(text) \/ text[i] # c THEN i
    ELSE SameEnd(text, i + 1, c)

\* html.entities.html5, the entries the inputs can form.
html5 ==
    (<<"a", "m", "p">> :> <<"&">>) @@ (<<"a", "m", "p", ";">> :> <<"&">>) @@
    (<<"l", "t">> :> <<"<">>) @@ (<<"l", "t", ";">> :> <<"<">>) @@
    (<<"g", "t">> :> <<">">>) @@ (<<"g", "t", ";">> :> <<">">>)

\* html._replace_charref for a named reference s (the text after "&"): the
\* entity, else the longest proper prefix of at least 2 characters that is an
\* entity followed by the rest, else the reference unchanged.
replace_charref(s) ==
    IF s \in DOMAIN html5 THEN html5[s]
    ELSE LET xs == {x \in 2..(Len(s) - 1) : SubSeq(s, 1, x) \in DOMAIN html5}
         IN IF xs # {} THEN html5[SubSeq(s, 1, Max(xs))]
                            \o SubSeq(s, Max(xs) + 1, Len(s))
            ELSE <<"&">> \o s

\* The opening of the block a pattern removes: "<script", "<style".
BlockOpen(p) ==
    IF p = "script" THEN <<"<", "s", "c", "r", "i", "p", "t">>
    ELSE <<"<", "s", "t", "y", "l", "e">>

\* The closing of the block: "</script>", "</style>".
BlockClose(p) ==
    IF p = "script" THEN <<"<", "/", "s", "c", "r", "i", "p", "t", ">">>
    ELSE <<"<", "/", "s", "t", "y", "l", "e", ">">>

\* Where the \S+ after the scheme of a URL starts, 0 when text[i:] has no
\* "http://", "https://" or "www.".
UrlBody(text, i) ==
    IF StartsWith(text, i, <<"h", "t", "t", "p", "s", ":", "/", "/">>)
    THEN i + 8
    ELSE IF StartsWith(text, i, <<"h", "t", "t", "p", ":", "/", "/">>)
    THEN i + 7
    ELSE IF StartsWith(text, i, <<"w", "w", "w", ".">>) THEN i + 4
    ELSE 0

\* The length of the match of pattern p at position i of text, 0 for none:
\*   charref  &([^\t\n\f <&#;]{1,32};?)       (html.unescape, named form)
\*   control  [\x00-\x1F\x7F-\x9F]
\*   url      https?://\S+|www\.\S+
\*   email    \S+@\S+\.\S+
\*   punct    ([.!?])\1+
\*   script   <script.*?>.*?</script>         style   <style.*?>.*?</style>
\*   tag      <[^>]+>
MatchLen(p, text, i) ==
    CASE p = "charref" ->
           IF text[i] # "&" THEN 0
           ELSE LET r == RunEnd(text, i + 1, NameStop)
                    e == IF r > i + 33 THEN i + 33 ELSE r
                IN IF e = i + 1 THEN 0
                   ELSE IF e <= Len(text) /\ text[e] = ";" THEN e + 1 - i
                   ELSE e - i
      [] p = "control" -> IF text[i] \in ControlChars THEN 1 ELSE 0
      [] p = "url" ->
           LET a == UrlBody(text, i)
           IN IF a = 0 THEN 0
              ELSE IF RunEnd(text, a, Whitespace) = a THEN 0
              ELSE RunEnd(text, a, Whitespace) - i
      [] p = "email" ->
           LET e == RunEnd(text, i, Whitespace)
           IN IF \E a \in (i + 1)..(e - 1), d \in (i + 1)..(e - 2) :
                    text[a] = "@" /\ text[d] = "." /\ d >= a + 2
              THEN e - i ELSE 0
      [] p = "punct" ->
           IF text[i] \notin {".", "!", "?"} THEN 0
           ELSE IF SameEnd(text, i + 1, text[i]) = i + 1 THEN 0
           ELSE SameEnd(text, i + 1, text[i]) - i
      [] p \in {"script", "style"} ->
           IF ~StartsWith(text, i, BlockOpen(p)) THEN 0
           ELSE LET g == Find(text, i + Len(BlockOpen(p)), <<">">>)
                    c == IF g = 0 THEN 0 ELSE Find(text, g + 1, BlockClose(p))
                IN IF c = 0 THEN 0 ELSE c + Len(BlockClose(p)) - i
      [] p = "tag" ->
           IF text[i] # "<" THEN 0
           ELSE LET e == RunEnd(text, i + 1, {">"})
                IN IF e > i + 1 /\ e <= Len(text) THEN e + 1 - i ELSE 0

\* What the match of length n at position i is replaced by.
Replacement(p, text, i, n) ==
    CASE p = "charref" -> replace_charref(SubSeq(text, i + 1, i + n - 1))
      [] p = "url" -> <<"[", "U", "R", "L", "]">>
      [] p = "email" -> <<"[", "E", "M", "A", "I", "L", "]">>
      [] p = "punct" -> <<text[i]>>
      [] OTHER -> <<>>

RECURSIVE sub(_, _, _)
\* re.sub(p, repl, text) from position i on: the leftmost match is replaced,
\* the scan goes on after it; a character no match starts at is kept.
sub(p, text, i) ==
    IF i > Len(text) THEN <<>>
    ELSE IF MatchLen(p, text, i) = 0 THEN <<text[i]>> \o sub(p, text, i + 1)
    ELSE Replacement(p, text, i, MatchLen(p, text, i))
         \o sub(p, text, i + MatchLen(p, text, i))

RECURSIVE split(_, _, _)
\* text.split(): the maximal whitespace-free pieces of text, in order.
split(text, i, word) ==
    IF i > Len(text) THEN (IF word = <<>> THEN <<>> ELSE <<word>>)
    ELSE IF text[i] \in Whitespace
    THEN (IF word = <<>> THEN <<>> ELSE <<word>>) \o split(text, i + 1, <<>>)
    ELSE split(text, i + 1, Append(word, text[i]))

RECURSIVE strip(_)
\* text.strip()
strip(text) ==
    IF text = <<>> THEN <<>>
    ELSE IF text[1] \in Whitespace THEN strip(Tail(text))
    ELSE IF text[Len(text)] \in Whitespace
    THEN strip(SubSeq(text, 1, Len(text) - 1))
    ELSE text

\* PageScraper._clean_text, lines 86-116, step by step.
_clean_text(text) ==
    IF text = <<>> THEN <<>>
    ELSE LET unescaped == sub("charref", text, 1)
             collapsed == Join(split(unescaped, 1, <<>>), <<" ">>)
             printable == sub("control", collapsed, 1)
             no_urls == sub("url", printable, 1)
             no_emails == sub("email", no_urls, 1)
             no_repeats == sub("punct", no_emails, 1)
             no_script == sub("script", no_repeats, 1)
             no_style == sub("style", no_script, 1)
             no_tags == sub("tag", no_style, 1)
         IN strip(no_tags)

\* The pieces the checked input strings are made of.
Tokens ==
    {<<"&", "a", "m", "p", ";">>, <<"l", "t", ";">>, <<"<", "b", ">">>,
     <<" ">>, <<DEL>>, <<".">>, <<"a">>, <<"a", "@", "a">>,
     <<"h", "t", "t", "p", ":", "/", "/">>,
     <<"<", "s", "c", "r", "i", "p", "t", ">">>,
     <<"<", "/", "s", "c", "r", "i", "p", "t", ">">>}

\* Every string made of at most MaxTokens pieces.
Texts == {Flatten(ts) : ts \in UNION {[1..n -> Tokens] : n \in 0..MaxTokens}}

\* ------------------------------------------- data_processor: clean_data
\* The class \s, among the characters of the page records.
SpaceChars == {" ", "\t", "\n"}

\* The class \w, among the characters of the page records.
WordChars == {"a", "b", "c", "d", "T", "A", "B", "x", "y"}

\* The other characters the class [\w\s.,;:!?\'\"()-] holds.
KeptPunctuation == {".", ",", ";", ":", "!", "?", "'", "\"", "(", ")", "-"}

RECURSIVE sub_tags(_, _)
\* _clean_text, line 84: re.sub(r'<[^>]+>', ' ', text), from position i on.
sub_tags(text, i) ==
    IF i > Len(text) THEN <<>>
    ELSE IF MatchLen("tag", text, i) = 0 THEN <<text[i]>> \o sub_tags(text, i + 1)
    ELSE <<" ">> \o sub_tags(text, i + MatchLen("tag", text, i))

RECURSIVE SpacesEnd(_, _)
\* The position after the longest run of whitespace from i.
SpacesEnd(text, i) ==
    IF i > Len(text) \/ text[i] \notin SpaceChars THEN i
    ELSE SpacesEnd(text, i + 1)

RECURSIVE sub_spaces(_, _)
\* _clean_text, line 87: re.sub(r'\s+', ' ', text): every run of whitespace,
\* line breaks included, becomes one space.
sub_spaces(text, i) ==
    IF i > Len(text) THEN <<>>
    ELSE IF text[i] \in SpaceChars
    THEN <<" ">> \o sub_spaces(text, SpacesEnd(text, i))
    ELSE <<text[i]>> \o sub_spaces(text, i + 1)

\* _clean_text, line 90: re.sub(r'[^\w\s.,;:!?\'\"()-]', ' ', text).
sub_special(text) ==
    [i \in DOMAIN text |->
        IF text[i] \in WordChars \cup SpaceChars \cup KeptPunctuation
        THEN text[i] ELSE " "]

\* _clean_text, line 93: re.sub(r'^\s*$', '', text, flags=re.MULTILINE): a
\* line of whitespace alone is emptied; the line breaks stay.
RECURSIVE sub_blank_lines(_, _, _)
sub_blank_lines(text, i, line) ==
    LET kept == IF \A k \in DOMAIN line : line[k] \in SpaceChars
                THEN <<>> ELSE line
    IN  IF i > Len(text) THEN kept
        ELSE IF text[i] = "\n"
        THEN kept \o <<"\n">> \o sub_blank_lines(text, i + 1, <<>>)
        ELSE sub_blank_lines(text, i + 1, Append(line, text[i]))

RECURSIVE strip_spaces(_)
\* text.strip(), whitespace of every kind.
strip_spaces(text) ==
    IF text = <<>> THEN <<>>
    ELSE IF text[1] \in SpaceChars THEN strip_spaces(Tail(text))
    ELSE IF text[Len(text)] \in SpaceChars
    THEN strip_spaces(SubSeq(text, 1, Len(text) - 1))
    ELSE text

\* DataProcessor._clean_text, lines 70-95, step by step.
DataProcessor_clean_text(text) ==
    IF text = <<>> THEN <<>>
    ELSE strip_spaces(sub_blank_lines(sub_special(sub_spaces(sub_tags(text, 1), 1)),
                                      1, <<>>))

\* The link names of the page records stand for absolute http(s) URLs.
starts_with_http(link) == link \in {"home", "a", "b", "c", "d", "l", "m"}

\* clean_data, lines 59-63: the links that are not empty and start with
\* "http://" or "https://".  The links of a merged document are a set (the
\* order of list(set(...)) is not defined), those of a page a list.
clean_links(data) ==
    IF "page_count" \in DOMAIN data
    THEN {l \in data.links : starts_with_http(l)}
    ELSE SelectSeq(data.links, starts_with_http)

\* DataProcessor.clean_data, lines 31-68: a copy of the record with title and
\* body text cleaned, the text elements cleaned and the empty ones dropped,
\* the links filtered, and the time of processing added.
clean_data(data) ==
    [k \in (DOMAIN data) \cup {"processed_at"} |->
        CASE k = "title" -> DataProcessor_clean_text(data.title)
          [] k = "body_text" -> DataProcessor_clean_text(data.body_text)
          [] k = "text_elements" ->
                SelectSeq([i \in DOMAIN data.text_elements |->
                               DataProcessor_clean_text(data.text_elements[i])],
                          LAMBDA t : t # <<>>)
          [] k = "links" -> clean_links(data)
          [] k = "processed_at" -> "now"
          [] OTHER -> data[k]]

\* DataProcessor.save_data, lines 192-224: the record the files are written
\* from is clean_data(data).
save_data(data) == clean_data(data)

\* ------------------------------------- page_scraper: _detect_content_type
UpperCase == <<"A", "B", "C", "D", "E", "F", "G", "H", "I", "J", "K", "L", "M",
               "N", "O", "P", "Q", "R", "S", "T", "U", "V", "W", "X", "Y", "Z">>
LowerCase == <<"a", "b", "c", "d", "e", "f", "g", "h", "i", "j", "k", "l", "m",
               "n", "o", "p", "q", "r", "s", "t", "u", "v", "w", "x", "y", "z">>

\* str.lower()
lower(text) ==
    [i \in DOMAIN text |->
        IF \E k \in DOMAIN UpperCase : UpperCase[k] = text[i]
        THEN LowerCase[CHOOSE k \in DOMAIN UpperCase : UpperCase[k] = text[i]]
        ELSE text[i]]

\* lines 263 and 269, in the order of the lists.
article_indicators ==
    <<<<"a", "r", "t", "i", "c", "l", "e">>,
      <<"p", "o", "s", "t">>,
      <<"b", "l", "o", "g">>,
      <<"n", "e", "w", "s">>>>
product_indicators ==
    <<<<"p", "r", "o", "d", "u", "c", "t">>,
      <<"i", "t", "e", "m">>,
      <<"s", "h", "o", "p">>,
      <<"s", "t", "o", "r", "e">>,
      <<"b", "u", "y">>,
      <<"p", "r", "i", "c", "e">>>>

\* `indicator in url.lower()` for some indicator of the list.
any_indicator(indicators, url) ==
    \E k \in DOMAIN indicators : Find(lower(url), 1, indicators[k]) # 0

\* Mutant: the product indicators are looked at before the article ones.
_detect_content_type_ProductFirst(page) ==
    IF page.texts = <<>> THEN "unknown"
    ELSE IF any_indicator(product_indicators, page.current_url) THEN "product"
    ELSE IF any_indicator(article_indicators, page.current_url) THEN "article"
    ELSE IF page.li > 10 THEN "list"
    ELSE IF page.forms > 0 THEN "form"
    ELSE "general"

\* PageScraper._detect_content_type(texts) with the browser on a page whose
\* address is current_url and which has `li` //ul/li elements and `forms`
\* form elements.
_detect_content_type(page) ==
    IF page.texts = <<>> THEN "unknown"
    ELSE IF any_indicator(article_indicators, page.current_url) THEN "article"
    ELSE IF any_indicator(product_indicators, page.current_url) THEN "product"
    ELSE IF page.li > 10 THEN "list"
    ELSE IF page.forms > 0 THEN "form"
    ELSE "general"

\* The addresses the classification is checked on: no indicator, each
\* indicator, upper case, both kinds in either order, a broken indicator.
DetectUrls ==
    {<<"x">>,
     <<"a", "r", "t", "i", "c", "l", "e">>,
     <<"p", "o", "s", "t">>,
     <<"b", "l", "o", "g">>,
     <<"n", "e", "w", "s">>,
     <<"p", "r", "o", "d", "u", "c", "t">>,
     <<"i", "t", "e", "m">>,
     <<"s", "h", "o", "p">>,
     <<"s", "t", "o", "r", "e">>,
     <<"b", "u", "y">>,
     <<"p", "r", "i", "c", "e">>,
     <<"B", "L", "O", "G">>,
     <<"S", "h", "o", "p">>,
     <<"s", "h", "o", "p", "/", "n", "e", "w", "s">>,
     <<"n", "e", "w", "s", "/", "s", "h", "o", "p">>,
     <<"i", "t", "e", "m", "-", "p", "o", "s", "t">>,
     <<"n", "e", "/", "w", "s">>,
     <<"s", "h", "o">>}

\* The pages the classification is checked on.
DetectPages ==
    [texts : {<<>>, <<<<"t">>>>}, current_url : DetectUrls, li : {0, 10, 11},
     forms : {0, 1}]

\* ------------------------------------------------------------------ site
StartUrl == 1

\* The sites: a chain of len pages, the last linking to nothing or back into
\* the chain.  Every next-link graph reachable from the start page has this shape.
\* A page that links onward marks the link up in one of these ways:
\*   "link"         a hidden <a href=self>下一页</a>, then <a href=target>Next</a>
\*   "plain_first"  <a>Next</a> without href (script driven), then
\*                  <a rel=next href=target>
Doms == {"link", "plain_first"}
Sites == {st \in [len : 1..MaxChain, tail : 0..MaxChain, dom : Doms] :
             st.tail <= st.len}

\* line 327: the XPath patterns, in the order of the list.
next_page_patterns ==
    <<"a_text_zh", "a_text_Next", "a_class_next", "a_rel_next",
      "a_aria_Next", "button_text_zh", "button_text_Next">>

\* What driver.find_element gives for one pattern: no element (it raises
\* NoSuchElementException), or the first element matching the pattern.
NoElement ==
    [found |-> FALSE, displayed |-> FALSE, enabled |-> FALSE, href |-> None]
Element(displayed, enabled, href) ==
    [found |-> TRUE, displayed |-> displayed, enabled |-> enabled,
     href |-> href]

\* The elements of page u of the site, one entry for each pattern.
page_elements(u) ==
    LET target == IF u < site.len THEN u + 1 ELSE site.tail
    IN [k \in DOMAIN next_page_patterns |->
          IF target = None THEN NoElement
          ELSE IF site.dom = "link" /\ k = 1 THEN Element(FALSE, TRUE, u)
          ELSE IF site.dom = "link" /\ k = 2 THEN Element(TRUE, TRUE, target)
          ELSE IF site.dom = "plain_first" /\ k = 2
          THEN Element(TRUE, TRUE, None)
          ELSE IF site.dom = "plain_first" /\ k = 4
          THEN Element(TRUE, TRUE, target)
          ELSE NoElement]

\* The elements a direct call of the resolver is checked on: hidden or not,
\* disabled or not, with one of two hrefs or none.
Elements ==
    {Element(d, e, h) : d \in BOOLEAN, e \in BOOLEAN, h \in {None, 1, 2}}

\* The sets of patterns that find an element in a direct call: at most
\* MaxCandidates patterns.
PatternSets ==
    {T \in SUBSET DOMAIN next_page_patterns : Cardinality(T) <= MaxCandidates}

RECURSIVE first_match_BestMatch(_, _)
\* Mutant: an element without href is passed over for a later pattern.
first_match_BestMatch(elems, k) ==
    IF k > Len(next_page_patterns) THEN None
    ELSE IF ~elems[k].found THEN first_match_BestMatch(elems, k + 1)
    ELSE IF elems[k].displayed /\ elems[k].enabled /\ elems[k].href # None
    THEN elems[k].href
    ELSE first_match_BestMatch(elems, k + 1)

RECURSIVE first_match(_, _)
\* lines 337-343, the for loop from pattern k on: no element, go on; an
\* element displayed and enabled, return its href attribute; else go on.
first_match(elems, k) ==
    IF k > Len(next_page_patterns) THEN None
    ELSE IF ~elems[k].found THEN first_match(elems, k + 1)
    ELSE IF elems[k].displayed /\ elems[k].enabled THEN elems[k].href
    ELSE first_match(elems, k + 1)

\* PageScraper._find_next_page_link on a page with the elements elems.
_find_next_page_link(elems) == first_match(elems, 1)

\* ---------------------------------------------------------- retry policy
\* What can happen inside the wrapped function on one invocation.
InnerOutcomes(o) ==
    IF o = "create_driver"
    THEN {"ok", "WebDriverException"}
    ELSE {"ok", "TimeoutException", "WebDriverException", "ExtractError"}

\* DriverManager.create_driver (undecorated): a WebDriverException is caught
\* and raised again as WebDriverError.
create_driver(inner) ==
    IF inner = "WebDriverException" THEN "WebDriverError" ELSE inner

\* Mutant: scrape_page without its except clause: the failure leaves as it is.
scrape_page_Passthrough(inner) == inner

\* PageScraper.scrape_page (undecorated): every Exception of driver.get or
\* _extract_page_content is caught and raised again as PageLoadError.
scrape_page(inner) ==
    IF inner = "ok" THEN "ok" ELSE "PageLoadError"

func(o, inner) == IF o = "create_driver" THEN create_driver(inner) ELSE scrape_page(inner)

\* Mutant: the decorator's default, exceptions=(Exception,), on both.
exceptions_Default(o) == {"WebDriverError", "PageLoadError", "TimeoutException", "WebDriverException"}

\* The `exceptions` argument of the two @retry_on_exception decorators.
exceptions(o) ==
    IF o = "create_driver"
    THEN {"WebDriverException"}
    ELSE {"PageLoadError", "TimeoutException"}

\* Mutant: one attempt more than the budget.
more_attempts_Extra(a, retries) == a <= retries

\* Mutant: one attempt short.
more_attempts_Short(a, retries) == a + 1 < retries

\* wrapper, line 93: `if attempt < retries`.
more_attempts(a, retries) == a < retries

\* Mutant: a constant wait.
backoff_delay_Constant(a) == delay

\* wrapper, line 99: time.sleep(delay * (attempt + 1)).
backoff_delay(a) == delay * (a + 1)

\* Mutant: the depth test lets one more page through.
loop_guard_OffByOne(url, count) == url # None /\ count <= config.MAX_PAGE_DEPTH

\* scrape_with_pagination, line 393: the while condition.
loop_guard(url, count) == url # None /\ count < config.MAX_PAGE_DEPTH

\* Entering wrapper(*args): its locals.
EnterWrapper(o) ==
    /\ op' = o
    /\ attempt' = 0
    /\ calls' = 0
    /\ backoffs' = <<>>
    /\ last_exception' = NoError
    /\ pc' = "invoke"

\* Mutant: the lower end of the range is ignored.
_random_wait_FromZero == 0..config.WAIT_BETWEEN_PAGES[2]

\* PageScraper._random_wait: the durations random.uniform(min_wait, max_wait)
\* can give, in whole units.
_random_wait == config.WAIT_BETWEEN_PAGES[1]..config.WAIT_BETWEEN_PAGES[2]

\* scrape_page, line 365: every invocation of scrape_page begins with
\* driver.get(url), one more navigation.
driver_get ==
    IF f_name = "scrape_with_pagination" /\ op = "scrape_page"
    THEN navigations + 1
    ELSE navigations

\* scrape_page, lines 365-368: once driver.get has returned, _random_wait
\* runs before the extraction; a failing driver.get leaves before it.
after_get(inner) ==
    IF op = "scrape_page" /\ inner \in {"ok", "ExtractError"}
    THEN [work EXCEPT !.last = "load"]
    ELSE work

\* The batches of the command line: one URL or two, each accepted by
\* validate_url or not.
Batches == [{1} -> BOOLEAN] \cup [{1, 2} -> BOOLEAN]

\* crawl_urls before its loop: the first URL in hand, nothing counted.
NoBatch ==
    [index |-> 1, successful |-> 0, failed |-> 0, attempted |-> <<>>,
     outcomes |-> <<>>]

\* validate_url(url) for the URL in hand.
url_valid == args.urls[batch.index]

\* ------------------------------------------------- plain crawler, API server
\* The command-line run as the owner of a browser session.
MainRun == "main"

\* The HTTP requests in flight together (app.run serves each request on a
\* thread of its own).
Requests == {"r1", "r2"}

\* A browser session just created for `owner`: running, used by nobody yet.
NewSession(owner) == [owner |-> owner, quit |-> FALSE, users |-> {}]

\* WebCrawler.__init__ (crawler.py): a crawler without a driver.
WebCrawler == [driver |-> None]

\* The methods class WebCrawler (crawler.py) defines.
WebCrawlerMethods ==
    {"__init__", "__enter__", "__exit__", "setup", "crawl_urls", "cleanup"}

\* Mutant: every call is handed the first session of the process.
get_driver_Shared(sess) == 1

\* get_driver(browser_type, headless), when it returns: the session it
\* hands out is a new one, the next of the process.
get_driver(sess) == Len(sess) + 1

\* WebCrawler.setup, lines 41-44, once get_driver has returned driver d.
setup(c, d) == [c EXCEPT !.driver = d]

\* driver.title of the page loaded for URL u.
title_of(u) == <<"title", u>>

\* WebCrawler.crawl_urls (crawler.py): `results` at the return.  loads[i] is
\* what the try block does for urls[i]: it completes ("ok") or raises.
RECURSIVE crawl_urls(_, _)
crawl_urls(urls, loads) ==
    IF urls = <<>> THEN <<>>
    ELSE LET rest == crawl_urls(Tail(urls), Tail(loads))
         IN  IF Head(loads) = "ok"
             THEN <<[url |-> Head(urls), title |-> title_of(Head(urls))]>> \o rest
             ELSE rest

\* The sessions after driver d was driven by `user`.
Used(sess, d, user) == [sess EXCEPT ![d].users = @ \cup {user}]

\* Mutant: cleanup leaves the browser running.
cleanup_Skip(c, sess) == [crawler |-> c, sessions |-> sess]

\* WebCrawler.cleanup (crawler.py): the crawler and the sessions afterwards.
\* The driver, if there is one, is quit; no field of the crawler is assigned.
cleanup(c, sess) ==
    [crawler |-> c,
     sessions |-> IF c.driver # None
                  THEN [sess EXCEPT ![c.driver].quit = TRUE]
                  ELSE sess]

\* WebCrawler.__exit__ (crawler.py): cleanup, and the exception goes on.
__exit__(c, sess) == cleanup(c, sess)

\* DriverManager.close: the manager's driver, the session created last, is
\* quit (an error of quit is logged) and forgotten.
close(sess) ==
    [i \in DOMAIN sess |->
        IF i = Len(sess) THEN [sess[i] EXCEPT !.quit = TRUE] ELSE sess[i]]

\* -------------------------------------------- sequences of lifecycle calls
MaxSteps == 3

\* The two crawler classes: main.py (a DriverManager holds the driver) and
\* crawler.py (the crawler holds the driver).
CrawlerClasses == {"main", "plain"}

\* What a caller does with one crawler, call by call; "setup_raises" is a
\* setup in which creating the driver raises.
LifecycleCalls == {"setup", "setup_raises", "crawl_urls", "cleanup"}

\* The sequences of calls on one crawler that end with cleanup.
CallSequences ==
    {s \in UNION {[1..n -> LifecycleCalls] : n \in 1..MaxSteps} :
        s[Len(s)] = "cleanup"}

\* WebCrawler.__init__ (main.py): no driver manager yet.
MainCrawler == [driver_manager |-> <<>>]

\* The crawler of class cls after construction.
NewCrawler(cls) == IF cls = "main" THEN MainCrawler ELSE WebCrawler

\* DriverManager.close, lines 192-201: the driver, if any, is quit and the
\* field is set to None; the manager and the sessions afterwards.
DriverManager_close(mgr, sess) ==
    [manager |-> [driver |-> None],
     sessions |-> IF mgr.driver # None
                  THEN [sess EXCEPT ![mgr.driver].quit = TRUE]
                  ELSE sess]

\* WebCrawler.cleanup (main.py), lines 87-91: the driver manager, if there is
\* one, is closed; the crawler keeps it.
main_cleanup(c, sess) ==
    IF c.driver_manager = <<>>
    THEN [crawler |-> c, sessions |-> sess]
    ELSE LET closed == DriverManager_close(c.driver_manager[1], sess)
         IN  [crawler |-> [driver_manager |-> <<closed.manager>>],
              sessions |-> closed.sessions]

\* WebCrawler.setup (main.py), lines 67-85.  A new DriverManager replaces the
\* one the crawler had; create_driver returns the session webdriver.Remote
\* has started, or raises, before the session was started or after it
\* (`started`), and then cleanup closes the new manager.
main_setup(c, sess, returns, started) ==
    IF returns
    THEN [crawler |-> [driver_manager |-> <<[driver |-> Len(sess) + 1]>>],
          sessions |-> Append(sess, NewSession(MainRun))]
    ELSE IF started
    THEN main_cleanup([driver_manager |-> <<[driver |-> Len(sess) + 1]>>],
                      Append(sess, NewSession(MainRun)))
    ELSE main_cleanup([driver_manager |-> <<[driver |-> None]>>], sess)

\* The driver a crawler holds, or None.
driver_of(c) ==
    IF "driver" \in DOMAIN c THEN c.driver
    ELSE IF c.driver_manager = <<>> THEN None
    ELSE c.driver_manager[1].driver

\* The routes that start a crawler.
Endpoints == {"extract", "extract-text", "batch"}

\* What the JSON body holds under "url" (or "urls"): nothing, an empty
\* string or list, a number, a non-empty string, a non-empty list.
JsonValues == {"missing", "empty", "number", "string", "list"}

\* `not v` of Python for such a value.
falsy(v) == v \in {"missing", "empty"}

\* Mutant: the type of the value is not tested.
bad_request_NoTypeTest(endpoint, data) ==
    \/ data = "no_data"
    \/ falsy(data)

\* extract_content lines 99-113, extract_text_content lines 182-196,
\* batch_extract lines 269-283: the two tests that answer 400.  data is
\* "no_data" for a body that is {} or null, else the value under the key.
bad_request(endpoint, data) ==
    \/ data = "no_data"
    \/ falsy(data)
    \/ IF endpoint = "batch" THEN data # "list" ELSE data # "string"

\* A response not sent yet.
NoResponse ==
    [status |-> 0, state |-> "none", url |-> None, title |-> <<>>,
     count |-> None, results |-> <<>>, text_content |-> <<>>]

\* jsonify({"status": "error", "message": ...}), status.
error_response(status) == [NoResponse EXCEPT !.status = status, !.state = "error"]

\* extract_content, lines 133-145: the answer once crawl_urls has returned.
extract_response(url, results) ==
    IF results # <<>>
    THEN [NoResponse EXCEPT !.status = 200, !.state = "success", !.url = url,
                            !.title = results[1].title]
    ELSE error_response(404)

\* extract_text_content, lines 218-239: the answer once crawl_urls has
\* returned; the call of crawler.extract_text_content raises AttributeError
\* when the class has no such method, and `except Exception` answers 500.
extract_text_response(url, results) ==
    IF results = <<>>
    THEN error_response(404)
    ELSE IF "extract_text_content" \in WebCrawlerMethods
    THEN [NoResponse EXCEPT !.status = 200, !.state = "success", !.url = url,
                            !.title = results[1].title,
                            !.text_content = <<"text", url>>]
    ELSE error_response(500)

\* batch_extract, lines 303-307.
batch_response(results) ==
    [NoResponse EXCEPT !.status = 200, !.state = "success",
                       !.count = Len(results), !.results = results]

\* The locals of a handler that has not begun.
NoHandler == [pc |-> "off", crawler |-> <<>>, results |-> <<>>,
              response |-> NoResponse]

\* No request is made to this slot.
NoRequest == [endpoint |-> "none", data |-> "no_data", urls |-> <<>>,
              get_driver |-> "ok", loads |-> <<>>]

\* The URL lists of a request: one URL for extract and extract-text, one or
\* two for batch.
UrlLists(endpoint) == IF endpoint = "batch" THEN {<<1>>, <<1, 2>>} ELSE {<<1>>}

\* What the browser can do for a request with the URLs u: get_driver raises,
\* or it returns and driver.get loads or fails each URL.
Browsers(u) ==
    {[get_driver |-> "raises", loads |-> [i \in 1..Len(u) |-> "ok"]]}
    \cup {[get_driver |-> "ok", loads |-> l] :
            l \in [1..Len(u) -> {"ok", "WebDriverException"}]}

\* The value under "url" (or "urls") that is of the type the endpoint asks for.
ExpectedValue(endpoint) == IF endpoint = "batch" THEN "list" ELSE "string"

\* The requests of one endpoint: a body without data or with a value of
\* another kind under the key, or a body as the endpoint expects it, with
\* what the browser does for it.
RequestsOf(endpoint) ==
    {[NoRequest EXCEPT !.endpoint = endpoint, !.data = d, !.urls = <<1>>,
                       !.loads = <<"ok">>] :
        d \in (JsonValues \cup {"no_data"}) \ {ExpectedValue(endpoint)}}
    \cup UNION {
        {[endpoint |-> endpoint, data |-> ExpectedValue(endpoint),
          urls |-> u, get_driver |-> b.get_driver, loads |-> b.loads] :
            b \in Browsers(u)} : u \in UrlLists(endpoint)}

\* ------------------------------------------------------------ _scroll_page
\* The scrollHeight values of a page before the first scroll.
Heights == {1, 2}

\* Heights are kept modulo HeightWrap.  A page that never stops growing
\* grows by one load for each scroll, so two measurements one scroll apart
\* differ before and after the reduction; a page that stops growing stays
\* below HeightWrap.
HeightWrap == MaxGrow + 3

\* The pages: the scrollHeight now; endless: every scroll to the bottom
\* loads more (infinite scroll); more: the loads a page that ends still has;
\* fails_in: the driver call that raises (0: none does).
Documents ==
    [height : Heights, endless : {FALSE}, more : 0..MaxGrow, fails_in : 0..MaxCalls]
    \cup [height : Heights, endless : {TRUE}, more : {0}, fails_in : 0..MaxCalls]

\* No page is being scrolled.
NoDocument == [height |-> 1, endless |-> FALSE, more |-> 0, fails_in |-> 0]

\* driver.execute_script raises on this call.
Raises(doc) == doc.fails_in = 1

\* The page after a driver call that returned.
Returned(doc) == [doc EXCEPT !.fails_in = IF @ > 1 THEN @ - 1 ELSE @]

\* window.scrollTo(0, document.body.scrollHeight) and the wait of a second:
\* the page has loaded what the scroll asked for.
scrollTo(doc) ==
    IF doc.endless THEN [doc EXCEPT !.height = (@ % HeightWrap) + 1]
    ELSE IF doc.more > 0 THEN [doc EXCEPT !.height = @ + 1, !.more = @ - 1]
    ELSE doc

\* Mutant: the loop goes on while the height stays and stops when it grows.
converged_Grown(new_height, last_height) == new_height > last_height

\* _scroll_page, line 68: `if new_height == last_height: break`.
converged(new_height, last_height) == new_height = last_height

\* _scroll_page not called.  last_height, new_height: the locals; ended: how
\* the call ended; history: measured, the last two heights the driver
\* returned; scrolled, a scroll was issued; settled, two measurements one
\* scroll apart were equal; extra, a scroll was issued after that.
NoScrollPage ==
    [pc |-> "off", last_height |-> None, new_height |-> None, ended |-> "none",
     measured |-> <<>>, scrolled |-> FALSE, settled |-> FALSE, extra |-> FALSE]

\* ---------------------------------------------------- plugin crawler
\* (the WebCrawler of the top-level crawler.py)
\* A registry: the plugins of one entry-point group in load order, each
\* given by what its can_handle answers for the URL of the call.
Registries == UNION {[1..n -> BOOLEAN] : n \in 0..MaxPlugins}

\* The step of crawl that raises, if any: the call of the plugin of a layer,
\* or requests.get / raise_for_status.
Failures == {"none", "input", "fetch", "parse", "api"}

\* Mutant: the loop has no break, the last plugin that can handle the URL
\* has the last word.
first_handler_Last(plugins) ==
    IF \E i \in DOMAIN plugins : plugins[i]
    THEN CHOOSE i \in DOMAIN plugins :
            plugins[i] /\ \A j \in DOMAIN plugins : plugins[j] => j <= i
    ELSE None

\* crawl, lines 42-46, 58-63, 66-71: `for plugin in ...: if
\* plugin.can_handle(url): ...; break`: the plugin the loop body runs for,
\* None when no plugin can handle the URL.
first_handler(plugins) ==
    IF \E i \in DOMAIN plugins : plugins[i]
    THEN CHOOSE i \in DOMAIN plugins :
            plugins[i] /\ \A j \in DOMAIN plugins : plugins[j] => i <= j
    ELSE None

\* One plugin layer of crawl on the state st of the call: steps is
\* result['steps'], calls the plugin and fetch calls made (history), status
\* "error" once a call has raised.
run_layer(st, layer, plugins, fails) ==
    LET i == first_handler(plugins)
    IN  IF st.status = "error" \/ i = None THEN st
        ELSE IF fails = layer
        THEN [st EXCEPT !.calls = Append(@, <<layer, i>>), !.status = "error"]
        ELSE [st EXCEPT !.calls = Append(@, <<layer, i>>),
                        !.steps = Append(@, <<layer, i>>)]

\* crawl, lines 49-54: requests.get and raise_for_status.
fetch(st, fails) ==
    IF st.status = "error" THEN st
    ELSE IF fails = "fetch"
    THEN [st EXCEPT !.calls = Append(@, <<"fetch", None>>), !.status = "error"]
    ELSE [st EXCEPT !.calls = Append(@, <<"fetch", None>>),
                    !.steps = Append(@, <<"fetch", None>>)]

\* WebCrawler.crawl (top-level crawler.py), lines 35-79.
crawl(a) ==
    LET s0 == [steps |-> <<>>, calls |-> <<>>, status |-> "running"]
        s1 == run_layer(s0, "input", a.input_plugins, a.fails)
        s2 == fetch(s1, a.fails)
        s3 == run_layer(s2, "parse", a.parse_plugins, a.fails)
        s4 == run_layer(s3, "api", a.api_plugins, a.fails)
    IN  [s4 EXCEPT !.status = IF @ = "error" THEN "error" ELSE "success"]

\* ------------------------------------------------------------------ Init
\* Nothing fetched, resolved or waited for yet.
NoWork == [fetched |-> 0, resolves |-> 0, paces |-> 0, last |-> "none"]

\* No direct call of merge_paginated_data.
NoMerge ==
    /\ m_in = <<>>
    /\ m_out = <<>>
    /\ m_pc = "off"
    /\ m_links = <<>>
    /\ m_pages = <<>>

\* No direct call of a pure method.
NoCall ==
    /\ f_name = "none"
    /\ f_arg = <<>>
    /\ f_out = <<>>

\* No API request is being served.
NoApi ==
    /\ request = [r \in Requests |-> NoRequest]
    /\ api = [r \in Requests |-> NoHandler]
    /\ sessions = <<>>
    /\ crawler_pool = EmptyDict

\* No call of _scroll_page.
NoScroll ==
    /\ document = NoDocument
    /\ scroll = NoScrollPage

\* A command-line run (main).
InitCrawl ==
    /\ config \in [MAX_PAGE_DEPTH : Depths, RETRY_COUNT : Retries,
                    WAIT_BETWEEN_PAGES : Waits]
    /\ site \in Sites
    /\ args \in [urls : Batches, handle_pagination : BOOLEAN]
    /\ batch = NoBatch
    /\ pc = "main"
    /\ op = "none"
    /\ attempt = 0
    /\ calls = 0
    /\ backoffs = <<>>
    /\ last_exception = NoError
    /\ current_url = None
    /\ page_count = 0
    /\ pages_data = <<>>
    /\ merged = <<>>
    /\ saved = <<>>
    /\ raised = NoError
    /\ end_reason = "none"
    /\ any_failure = FALSE
    /\ work = NoWork
    /\ pace_wait = 0
    /\ navigations = 0
    /\ NoMerge
    /\ NoCall
    /\ NoApi
    /\ NoScroll

\* --------------------------------------------------------------- actions
\* main -> WebCrawler.setup -> DriverManager.create_driver (decorated).
Setup ==
    /\ pc = "main"
    /\ EnterWrapper("create_driver")
    /\ UNCHANGED <<cfgVars, apiVars, scrollVars, batch, genVars, pages_data, merged, saved, raised,
                   end_reason, any_failure, mergeVars,
                   callVars, histVars>>

\* The wrapper's return: what the caller of the decorated function does next.
OnReturn ==
    /\ pc' = IF op = "create_driver" THEN "crawl_url"
             ELSE IF args.handle_pagination THEN "yield" ELSE "save"
    /\ UNCHANGED <<raised, end_reason>>

\* Mutant: scrape_with_pagination without its except clauses: the error of
\* the failing page reaches crawl_url, which re-raises it.
OnRaise_Reraise(e) ==
    IF op = "create_driver"
    THEN pc' = "exit" /\ raised' = e /\ UNCHANGED end_reason
    ELSE IF args.handle_pagination
    THEN pc' = "crawl_done" /\ raised' = e /\ end_reason' = "exhausted"
    ELSE pc' = "crawl_done" /\ raised' = e /\ UNCHANGED end_reason

\* Mutant: crawl_url swallows the error of a single page and returns.
OnRaise_Swallow(e) ==
    IF op = "create_driver"
    THEN pc' = "exit" /\ raised' = e /\ UNCHANGED end_reason
    ELSE IF args.handle_pagination
    THEN pc' = "gen_done" /\ end_reason' = "exhausted" /\ UNCHANGED raised
    ELSE pc' = "crawl_done" /\ UNCHANGED <<raised, end_reason>>

\* The wrapper's raise of e: what the caller of the decorated function does.
\*   setup: cleanup, re-raise, main exits;
\*   scrape_with_pagination: `except PageLoadError` / `except Exception`: break;
\*   crawl_url (single page): log, re-raise.
OnRaise(e) ==
    IF op = "create_driver"
    THEN pc' = "exit" /\ raised' = e /\ UNCHANGED end_reason
    ELSE IF args.handle_pagination
    THEN pc' = "gen_done" /\ end_reason' = "exhausted" /\ UNCHANGED raised
    ELSE pc' = "crawl_done" /\ raised' = e /\ UNCHANGED end_reason

\* create_driver, lines 139-142, has returned: webdriver.Remote has started
\* a session, DriverManager.driver holds it.
DriverCreated ==
    sessions' = IF op = "create_driver"
                THEN Append(sessions, NewSession(MainRun))
                ELSE sessions

\* setup (main.py), lines 82-85: create_driver has raised, before or after
\* webdriver.Remote had started a session; cleanup closes the driver
\* manager, the error goes on.
SetupFailed ==
    IF op = "create_driver"
    THEN \E started \in BOOLEAN :
            sessions' = IF started
                        THEN close(Append(sessions, NewSession(MainRun)))
                        ELSE sessions
    ELSE UNCHANGED sessions

\* wrapper, line 90: func returns.
InvokeReturns ==
    /\ pc = "invoke"
    /\ \E inner \in InnerOutcomes(op) :
        /\ func(op, inner) = "ok"
        /\ calls' = calls + 1
        /\ work' = after_get(inner)
        /\ navigations' = driver_get
        /\ OnReturn
    /\ DriverCreated
    /\ UNCHANGED <<cfgVars, request, api, crawler_pool, scrollVars, batch, op, attempt, backoffs, last_exception, genVars,
                   pages_data, merged, saved, any_failure, mergeVars,
                   callVars, pace_wait>>

\* wrapper, lines 91-99: func raises a listed exception and attempts are left.
InvokeFailsRetry ==
    /\ pc = "invoke"
    /\ \E inner \in InnerOutcomes(op) :
        /\ func(op, inner) \in exceptions(op)
        /\ more_attempts(attempt, config.RETRY_COUNT)
        /\ calls' = calls + 1
        /\ work' = after_get(inner)
        /\ navigations' = driver_get
        /\ last_exception' = [kind |-> func(op, inner), at |-> attempt]
        /\ pc' = "backoff"
    /\ any_failure' = TRUE
    /\ UNCHANGED <<cfgVars, apiVars, scrollVars, batch, op, attempt, backoffs, genVars, pages_data, merged,
                   saved, raised, end_reason, mergeVars,
                   callVars, pace_wait>>

\* wrapper, line 99: the sleep, then the next iteration of the for loop.
Backoff ==
    /\ pc = "backoff"
    /\ backoffs' = Append(backoffs, backoff_delay(attempt))
    /\ attempt' = attempt + 1
    /\ pc' = "invoke"
    /\ UNCHANGED <<cfgVars, apiVars, scrollVars, batch, op, calls, last_exception, genVars, pages_data,
                   merged, saved, raised, end_reason, any_failure, mergeVars,
                   callVars, histVars>>

\* wrapper, lines 100-106: func raises a listed exception on the last attempt.
InvokeFailsExhausted ==
    /\ pc = "invoke"
    /\ \E inner \in InnerOutcomes(op) :
        /\ func(op, inner) \in exceptions(op)
        /\ ~more_attempts(attempt, config.RETRY_COUNT)
        /\ calls' = calls + 1
        /\ work' = after_get(inner)
        /\ navigations' = driver_get
        /\ last_exception' = [kind |-> func(op, inner), at |-> attempt]
        /\ OnRaise(last_exception')
    /\ SetupFailed
    /\ any_failure' = TRUE
    /\ UNCHANGED <<cfgVars, request, api, crawler_pool, scrollVars, batch, op, attempt, backoffs, genVars, pages_data, merged,
                   saved, mergeVars,
                   callVars, pace_wait>>

\* wrapper, line 91: func raises an exception that is not listed: it leaves
\* the wrapper at once.
InvokeFailsUnlisted ==
    /\ pc = "invoke"
    /\ \E inner \in InnerOutcomes(op) :
        /\ func(op, inner) \notin exceptions(op) \cup {"ok"}
        /\ calls' = calls + 1
        /\ work' = after_get(inner)
        /\ navigations' = driver_get
        /\ OnRaise([kind |-> func(op, inner), at |-> attempt])
    /\ SetupFailed
    /\ any_failure' = TRUE
    /\ UNCHANGED <<cfgVars, request, api, crawler_pool, scrollVars, batch, op, attempt, backoffs, last_exception, genVars,
                   pages_data, merged, saved, mergeVars,
                   callVars, pace_wait>>

\* crawl_url, lines 101-123: validation, then the generator is created and
\* first requested, or scrape_page is called.
CrawlUrl ==
    /\ pc = "crawl_url"
    /\ batch' = [batch EXCEPT !.attempted = Append(@, batch.index)]
    /\ IF ~url_valid
       THEN /\ pc' = "crawl_done"
            /\ UNCHANGED <<retryVars, genVars, work>>
       ELSE IF args.handle_pagination
       THEN /\ pc' = "loop"
            /\ current_url' = StartUrl
            /\ page_count' = 0
            /\ UNCHANGED <<retryVars, work>>
       ELSE /\ EnterWrapper("scrape_page")
            /\ work' = [work EXCEPT !.fetched = @ + 1]
            /\ UNCHANGED genVars
    /\ UNCHANGED <<cfgVars, apiVars, scrollVars, pages_data, merged, saved, raised, end_reason,
                   any_failure, mergeVars,
                   callVars, pace_wait, navigations>>

\* scrape_with_pagination, lines 393-396: the while test, then scrape_page.
Loop ==
    /\ pc = "loop"
    /\ IF loop_guard(current_url, page_count)
       THEN /\ EnterWrapper("scrape_page")
            /\ work' = [work EXCEPT !.fetched = @ + 1]
            /\ UNCHANGED end_reason
       ELSE /\ pc' = "gen_done"
            /\ end_reason' = "depth"
            /\ UNCHANGED <<retryVars, work>>
    /\ UNCHANGED <<cfgVars, apiVars, scrollVars, batch, genVars, pages_data, merged, saved, raised,
                   any_failure, mergeVars,
                   callVars, pace_wait, navigations>>

\* Mutant: the caller receives one record per attempt made on the page, the
\* failed ones included.
Yield_PerAttempt ==
    /\ pc = "yield"
    /\ pages_data' = pages_data \o [i \in 1..calls |-> PageContent(current_url)]
    /\ pc' = "resume"
    /\ UNCHANGED <<cfgVars, apiVars, scrollVars, batch, retryVars, genVars, merged, saved, raised,
                   end_reason, any_failure, mergeVars,
                   callVars, histVars>>

\* scrape_with_pagination, line 397 with crawl_url, line 113: the record is
\* yielded and the for loop of the caller appends it.
Yield ==
    /\ pc = "yield"
    /\ pages_data' = Append(pages_data, PageContent(current_url))
    /\ pc' = "resume"
    /\ UNCHANGED <<cfgVars, apiVars, scrollVars, batch, retryVars, genVars, merged, saved, raised,
                   end_reason, any_failure, mergeVars,
                   callVars, histVars>>

\* Mutant: the generator, when closed, still looks up the next link.
Abandon_ResolvesFirst ==
    /\ pc = "resume"
    /\ pc' = "abandoned"
    /\ work' = [work EXCEPT !.resolves = @ + 1]
    /\ UNCHANGED <<cfgVars, apiVars, scrollVars, batch, retryVars, genVars, pages_data, merged, saved,
                   raised, end_reason, any_failure, mergeVars, callVars,
                   pace_wait, navigations>>

\* scrape_with_pagination, line 397: a caller stops iterating after the
\* record it was handed.  The generator stays suspended at the yield and is
\* closed there: GeneratorExit is no Exception, no clause of the generator
\* catches it, nothing more of its body runs.
Abandon ==
    /\ pc = "resume"
    /\ pc' = "abandoned"
    /\ UNCHANGED <<cfgVars, apiVars, scrollVars, batch, retryVars, genVars, pages_data, merged, saved,
                   raised, end_reason, any_failure, mergeVars, callVars,
                   histVars>>

\* scrape_with_pagination, lines 399-400: the caller asks for the next record.
Resume ==
    /\ pc = "resume"
    /\ page_count' = page_count + 1
    /\ pc' = "resolve"
    /\ UNCHANGED <<cfgVars, apiVars, scrollVars, batch, retryVars, current_url, pages_data, merged, saved,
                   raised, end_reason, any_failure, mergeVars,
                   callVars, histVars>>

\* Mutant: `current_url = next_url` is left out.
ResolveNext_StayOnPage ==
    /\ pc = "resolve"
    /\ work' = [work EXCEPT !.resolves = @ + 1]
    /\ IF _find_next_page_link(page_elements(current_url)) = None
       THEN pc' = "gen_done" /\ end_reason' = "no_next" /\ UNCHANGED current_url
       ELSE /\ pc' = "pace"
            /\ UNCHANGED current_url
            /\ UNCHANGED end_reason
    /\ UNCHANGED <<cfgVars, apiVars, scrollVars, batch, retryVars, page_count, pages_data, merged, saved,
                   raised, any_failure, mergeVars,
                   callVars, pace_wait, navigations>>

\* scrape_with_pagination, lines 403-409: the next link is looked up.
ResolveNext ==
    /\ pc = "resolve"
    /\ work' = [work EXCEPT !.resolves = @ + 1]
    /\ IF _find_next_page_link(page_elements(current_url)) = None
       THEN pc' = "gen_done" /\ end_reason' = "no_next" /\ UNCHANGED current_url
       ELSE /\ pc' = "pace"
            /\ current_url' = _find_next_page_link(page_elements(current_url))
            /\ UNCHANGED end_reason
    /\ UNCHANGED <<cfgVars, apiVars, scrollVars, batch, retryVars, page_count, pages_data, merged, saved,
                   raised, any_failure, mergeVars,
                   callVars, pace_wait, navigations>>

\* Mutant: scrape_with_pagination without `except Exception`: the error of
\* the lookup leaves the generator and crawl_url raises it again.
ResolveRaises_Reraise ==
    /\ pc = "resolve"
    /\ work' = [work EXCEPT !.resolves = @ + 1]
    /\ pc' = "crawl_done"
    /\ end_reason' = "resolver_error"
    /\ any_failure' = TRUE
    /\ raised' = [kind |-> "StaleElementReferenceException", at |-> 0]
    /\ UNCHANGED <<cfgVars, apiVars, scrollVars, batch, retryVars, genVars, pages_data, merged, saved,
                   mergeVars,
                   callVars, pace_wait, navigations>>

\* scrape_with_pagination, lines 403 and 415-417: the lookup raises (a stale
\* element); `except Exception` ends the loop.
ResolveRaises ==
    /\ pc = "resolve"
    /\ work' = [work EXCEPT !.resolves = @ + 1]
    /\ pc' = "gen_done"
    /\ end_reason' = "resolver_error"
    /\ any_failure' = TRUE
    /\ UNCHANGED <<cfgVars, apiVars, scrollVars, batch, retryVars, genVars, pages_data, merged, saved,
                   raised, mergeVars,
                   callVars, pace_wait, navigations>>

\* scrape_with_pagination, line 410: _random_wait, then the while test.
Pace ==
    /\ pc = "pace"
    /\ \E d \in _random_wait :
          /\ pace_wait' = d
          /\ work' = [work EXCEPT !.paces = @ + 1, !.last = "pace"]
    /\ pc' = "loop"
    /\ UNCHANGED navigations
    /\ UNCHANGED <<cfgVars, apiVars, scrollVars, batch, retryVars, genVars, pages_data, merged, saved,
                   raised, end_reason, any_failure, mergeVars,
                   callVars>>

\* crawl_url, lines 116-117: the generator is exhausted; merge if any page.
AfterTraversal ==
    /\ pc = "gen_done"
    /\ IF pages_data # <<>>
       THEN merged' = <<merge_paginated_data(pages_data)>> /\ pc' = "save"
       ELSE UNCHANGED merged /\ pc' = "crawl_done"
    /\ UNCHANGED <<cfgVars, apiVars, scrollVars, batch, retryVars, genVars, pages_data, saved, raised,
                   end_reason, any_failure, mergeVars,
                   callVars, histVars>>

\* The argument of save_data: merged_data (line 119) or page_data (line 125).
SaveArgument ==
    IF args.handle_pagination THEN merged[1] ELSE PageContent(StartUrl)

\* crawl_url, lines 119 / 125: save_data writes the files.
SaveOk ==
    /\ pc = "save"
    /\ saved' = Append(saved, save_data(SaveArgument))
    /\ pc' = "crawl_done"
    /\ UNCHANGED <<cfgVars, apiVars, scrollVars, batch, retryVars, genVars, pages_data, merged, raised,
                   end_reason, any_failure, mergeVars,
                   callVars, histVars>>

\* crawl_url, lines 119 / 125 and 131-133: save_data raises DataProcessError,
\* crawl_url logs and re-raises.
SaveFails ==
    /\ pc = "save"
    /\ raised' = [kind |-> "DataProcessError", at |-> 0]
    /\ pc' = "crawl_done"
    /\ UNCHANGED <<cfgVars, apiVars, scrollVars, batch, retryVars, genVars, pages_data, merged, saved,
                   end_reason, any_failure, mergeVars,
                   callVars, histVars>>

\* Mutant: the loop ends at the first URL whose crawl_url raised.
NextUrl_StopOnFailure ==
    /\ pc = "crawl_done"
    /\ batch' = [batch EXCEPT
                    !.successful = IF raised = NoError THEN @ + 1 ELSE @,
                    !.failed = IF raised = NoError THEN @ ELSE @ + 1,
                    !.outcomes = Append(@, IF raised = NoError THEN "ok"
                                           ELSE "failed"),
                    !.index = IF batch.index < Len(args.urls) THEN @ + 1
                              ELSE @]
    /\ pc' = IF batch.index < Len(args.urls) /\ raised = NoError
             THEN "crawl_url" ELSE "batch_done"
    /\ op' = "none"
    /\ attempt' = 0
    /\ calls' = 0
    /\ backoffs' = <<>>
    /\ last_exception' = NoError
    /\ current_url' = None
    /\ page_count' = 0
    /\ pages_data' = <<>>
    /\ merged' = <<>>
    /\ saved' = <<>>
    /\ raised' = NoError
    /\ end_reason' = "none"
    /\ any_failure' = FALSE
    /\ work' = NoWork
    /\ pace_wait' = 0
    /\ navigations' = 0
    /\ UNCHANGED <<cfgVars, apiVars, scrollVars, mergeVars, callVars>>

\* crawl_urls (main.py), lines 150-158: crawl_url has returned (successful
\* += 1) or raised an Exception (failed += 1); the for loop takes the next
\* URL, or ends.  The locals of the call that ended are gone, `saved` and the
\* history start afresh for the next URL.
NextUrl ==
    /\ pc = "crawl_done"
    /\ batch' = [batch EXCEPT
                    !.successful = IF raised = NoError THEN @ + 1 ELSE @,
                    !.failed = IF raised = NoError THEN @ ELSE @ + 1,
                    !.outcomes = Append(@, IF raised = NoError THEN "ok"
                                           ELSE "failed"),
                    !.index = IF batch.index < Len(args.urls) THEN @ + 1
                              ELSE @]
    /\ pc' = IF batch.index < Len(args.urls) THEN "crawl_url" ELSE "batch_done"
    /\ op' = "none"
    /\ attempt' = 0
    /\ calls' = 0
    /\ backoffs' = <<>>
    /\ last_exception' = NoError
    /\ current_url' = None
    /\ page_count' = 0
    /\ pages_data' = <<>>
    /\ merged' = <<>>
    /\ saved' = <<>>
    /\ raised' = NoError
    /\ end_reason' = "none"
    /\ any_failure' = FALSE
    /\ work' = NoWork
    /\ pace_wait' = 0
    /\ navigations' = 0
    /\ UNCHANGED <<cfgVars, apiVars, scrollVars, mergeVars, callVars>>

\* No crawl runs: the crawl variables at rest.
NoCrawl ==
    /\ config = [MAX_PAGE_DEPTH |-> 1, RETRY_COUNT |-> 0,
                 WAIT_BETWEEN_PAGES |-> <<1, 2>>]
    /\ site = [len |-> 1, tail |-> None, dom |-> "link"]
    /\ args = [urls |-> <<FALSE>>, handle_pagination |-> FALSE]
    /\ batch = NoBatch
    /\ pc = "off"
    /\ op = "none"
    /\ attempt = 0
    /\ calls = 0
    /\ backoffs = <<>>
    /\ last_exception = NoError
    /\ current_url = None
    /\ page_count = 0
    /\ pages_data = <<>>
    /\ merged = <<>>
    /\ saved = <<>>
    /\ raised = NoError
    /\ end_reason = "none"
    /\ any_failure = FALSE
    /\ work = NoWork
    /\ pace_wait = 0
    /\ navigations = 0

\* A traversal on its own: the loop of crawl_url, lines 111-113, over
\* scrape_with_pagination(url), the generator created and first requested.
InitTraversal ==
    /\ config \in [MAX_PAGE_DEPTH : Depths, RETRY_COUNT : Retries,
                    WAIT_BETWEEN_PAGES : Waits]
    /\ site \in Sites
    /\ args = [urls |-> [i \in {1} |-> TRUE], handle_pagination |-> TRUE]
    /\ batch = NoBatch
    /\ pc = "loop"
    /\ op = "none"
    /\ attempt = 0
    /\ calls = 0
    /\ backoffs = <<>>
    /\ last_exception = NoError
    /\ current_url = StartUrl
    /\ page_count = 0
    /\ pages_data = <<>>
    /\ merged = <<>>
    /\ saved = <<>>
    /\ raised = NoError
    /\ end_reason = "none"
    /\ any_failure = FALSE
    /\ work = NoWork
    /\ pace_wait = 0
    /\ navigations = 0
    /\ NoMerge
    /\ f_name = "scrape_with_pagination"
    /\ f_arg = StartUrl
    /\ f_out = <<>>
    /\ request = [r \in Requests |-> NoRequest]
    /\ api = [r \in Requests |-> NoHandler]
    /\ sessions = <<NewSession(MainRun)>>
    /\ crawler_pool = EmptyDict
    /\ NoScroll

\* merge_paginated_data called directly on a list of page records.
InitMerge ==
    /\ NoCrawl
    /\ NoApi
    /\ NoScroll
    /\ m_in \in MergeInputs
    /\ m_out = <<>>
    /\ m_pc = "input"
    /\ m_links = <<>>
    /\ m_pages = m_in
    /\ NoCall

\* A direct call of PageScraper._clean_text on a string of Texts.
InitClean ==
    /\ NoCrawl
    /\ NoApi
    /\ NoScroll
    /\ NoMerge
    /\ f_name = "_clean_text"
    /\ f_arg \in Texts
    /\ f_out = <<>>

\* A direct call of PageScraper._detect_content_type on a page of DetectPages.
InitDetect ==
    /\ NoCrawl
    /\ NoApi
    /\ NoScroll
    /\ NoMerge
    /\ f_name = "_detect_content_type"
    /\ f_arg \in DetectPages
    /\ f_out = <<>>

\* A direct call of PageScraper._find_next_page_link on a page where the
\* patterns of a set of PatternSets find an element of Elements each.
InitResolve ==
    /\ NoCrawl
    /\ NoApi
    /\ NoScroll
    /\ NoMerge
    /\ f_name = "_find_next_page_link"
    /\ \E S \in PatternSets : \E f \in [S -> Elements] :
          f_arg = [k \in DOMAIN next_page_patterns |->
                      IF k \in S THEN f[k] ELSE NoElement]
    /\ f_out = <<>>

\* A call of crawl_urls of crawler.py (the plain crawler): f_arg[i] is what
\* driver.get does for the i-th URL.
InitPlain ==
    /\ NoCrawl
    /\ NoApi
    /\ NoScroll
    /\ NoMerge
    /\ f_name = "crawl_urls"
    /\ f_arg \in UNION {[1..n -> {"ok", "WebDriverException"}] :
                          n \in 0..MaxUrls}
    /\ f_out = <<>>

\* The API server with one request, or two requests served concurrently.
InitApi ==
    /\ NoCrawl
    /\ NoMerge
    /\ NoCall
    /\ NoScroll
    /\ \E e1 \in Endpoints : \E q1 \in RequestsOf(e1) :
         \/ request = [r \in Requests |-> IF r = "r1" THEN q1 ELSE NoRequest]
         \/ \E e2 \in Endpoints : \E q2 \in RequestsOf(e2) :
              request = [r \in Requests |-> IF r = "r1" THEN q1 ELSE q2]
    /\ api = [r \in Requests |->
                IF request[r].endpoint = "none" THEN NoHandler
                ELSE [NoHandler EXCEPT !.pc = "received"]]
    /\ sessions = <<>>
    /\ crawler_pool = EmptyDict

\* The life of one crawler (crawler.py) as the tests drive it: setup, then
\* cleanup, called directly or by leaving a `with` block.
InitLifecycle ==
    /\ NoCrawl
    /\ NoMerge
    /\ NoApi
    /\ NoScroll
    /\ f_name = "lifecycle"
    /\ f_arg \in [leave : {"cleanup", "__exit__"}, get_driver : {"ok", "raises"}]
    /\ f_out = <<WebCrawler>>

\* A caller makes a sequence of calls on one crawler.
InitCalls ==
    /\ NoCrawl
    /\ NoMerge
    /\ NoApi
    /\ NoScroll
    /\ f_name = "calls"
    /\ f_arg \in [class : CrawlerClasses, calls : CallSequences]
    /\ f_out = <<NewCrawler(f_arg.class)>>

\* A call of PageScraper._scroll_page on a page.
InitScroll ==
    /\ NoCrawl
    /\ NoMerge
    /\ NoCall
    /\ NoApi
    /\ document \in Documents
    /\ scroll = [NoScrollPage EXCEPT !.pc = "start"]

\* A call of crawl of the plugin crawler (top-level crawler.py).
InitPlugins ==
    /\ NoCrawl
    /\ NoMerge
    /\ NoApi
    /\ NoScroll
    /\ f_name = "crawl"
    /\ f_arg \in [input_plugins : Registries, parse_plugins : Registries,
                  api_plugins : Registries, fails : Failures]
    /\ f_out = <<>>

Init ==
    \/ InitCrawl
    \/ InitMerge
    \/ InitClean
    \/ InitDetect
    \/ InitResolve
    \/ InitPlain
    \/ InitApi
    \/ InitLifecycle
    \/ InitScroll
    \/ InitPlugins
    \/ InitCalls

\* DataProcessor.merge_paginated_data(m_in) returns.
Merge ==
    /\ m_pc = "input"
    /\ m_out' = <<merge_paginated_data(m_in)>>
    /\ m_links' \in list_set(Flatten([i \in DOMAIN m_in |-> m_in[i].links]))
    /\ m_pages' = pages_after_merge(m_in)
    /\ m_pc' = "merged"
    /\ UNCHANGED <<cfgVars, apiVars, scrollVars, batch, pc, retryVars, genVars, pages_data, merged, saved,
                   raised, end_reason, any_failure, m_in, callVars, histVars>>

\* _clean_text is applied to the argument, then once more to what it returned.
CleanText ==
    /\ f_name = "_clean_text"
    /\ Len(f_out) < 2
    /\ f_out' = Append(f_out, _clean_text(IF f_out = <<>> THEN f_arg
                                           ELSE f_out[Len(f_out)]))
    /\ UNCHANGED <<cfgVars, apiVars, scrollVars, batch, pc, retryVars, genVars, pages_data, merged, saved,
                   raised, end_reason, any_failure, mergeVars, f_name, f_arg,
                   histVars>>

\* _detect_content_type returns.
DetectContentType ==
    /\ f_name = "_detect_content_type"
    /\ f_out = <<>>
    /\ f_out' = <<_detect_content_type(f_arg)>>
    /\ UNCHANGED <<cfgVars, apiVars, scrollVars, batch, pc, retryVars, genVars, pages_data, merged, saved,
                   raised, end_reason, any_failure, mergeVars, f_name, f_arg,
                   histVars>>

\* _find_next_page_link returns.
FindNextPageLink ==
    /\ f_name = "_find_next_page_link"
    /\ f_out = <<>>
    /\ f_out' = <<_find_next_page_link(f_arg)>>
    /\ UNCHANGED <<cfgVars, apiVars, scrollVars, batch, pc, retryVars, genVars, pages_data, merged, saved,
                   raised, end_reason, any_failure, mergeVars, f_name, f_arg,
                   histVars>>

\* Mutant: the result is appended whether the URL loaded or not.
PlainCrawlUrl_AppendAlways ==
    /\ f_name = "crawl_urls"
    /\ Len(f_out) < Len(f_arg)
    /\ f_out' = Append(f_out, [url |-> Len(f_out) + 1, appended |-> TRUE])
    /\ UNCHANGED <<cfgVars, apiVars, scrollVars, batch, pc, retryVars, genVars,
                   pages_data, merged, saved, raised, end_reason, any_failure,
                   mergeVars, f_name, f_arg, histVars>>

\* crawl_urls (crawler.py), lines 50-71: one pass of the for loop.  f_out
\* has one entry for each pass made: the URL taken and whether its result
\* was appended to `results`.
PlainCrawlUrl ==
    /\ f_name = "crawl_urls"
    /\ Len(f_out) < Len(f_arg)
    /\ f_out' = Append(f_out, [url |-> Len(f_out) + 1,
                               appended |-> f_arg[Len(f_out) + 1] = "ok"])
    /\ UNCHANGED <<cfgVars, apiVars, scrollVars, batch, pc, retryVars, genVars, pages_data, merged,
                   saved, raised, end_reason, any_failure, mergeVars, f_name,
                   f_arg, histVars>>

\* ------------------------------------------------------------ API server
\* extract_content lines 96-122, extract_text_content lines 179-207,
\* batch_extract lines 266-292: the body is read and tested; a refused
\* request is answered 400, else the handler constructs its crawler.
ApiReceive(r) ==
    /\ api[r].pc = "received"
    /\ IF bad_request(request[r].endpoint, request[r].data)
       THEN api' = [api EXCEPT ![r].response = error_response(400),
                               ![r].pc = "finally"]
       ELSE api' = [api EXCEPT ![r].crawler = <<WebCrawler>>,
                               ![r].pc = "setup"]
    /\ UNCHANGED <<cfgVars, request, sessions, crawler_pool, scrollVars, batch,
                   pc, retryVars, genVars, pages_data, merged, saved, raised,
                   end_reason, any_failure, mergeVars, callVars, histVars>>

\* crawler.setup(...) of a handler: get_driver returns a session, or raises
\* and `except Exception` answers 500.
ApiSetup(r) ==
    /\ api[r].pc = "setup"
    /\ IF request[r].get_driver = "ok"
       THEN LET d == get_driver(sessions)
            IN  /\ sessions' = IF d > Len(sessions)
                               THEN Append(sessions, NewSession(r))
                               ELSE sessions
                /\ api' = [api EXCEPT ![r].crawler = <<setup(@[1], d)>>,
                                      ![r].pc = "crawl"]
       ELSE /\ api' = [api EXCEPT ![r].response = error_response(500),
                                  ![r].pc = "finally"]
            /\ UNCHANGED sessions
    /\ UNCHANGED <<cfgVars, request, crawler_pool, scrollVars, batch,
                   pc, retryVars, genVars, pages_data, merged, saved, raised,
                   end_reason, any_failure, mergeVars, callVars, histVars>>

\* crawler.crawl_urls(...) of a handler: every URL is requested from the
\* crawler's driver.
ApiCrawl(r) ==
    /\ api[r].pc = "crawl"
    /\ api' = [api EXCEPT ![r].results = crawl_urls(request[r].urls,
                                                    request[r].loads),
                          ![r].pc = "respond"]
    /\ sessions' = Used(sessions, api[r].crawler[1].driver, r)
    /\ UNCHANGED <<cfgVars, request, crawler_pool, scrollVars, batch,
                   pc, retryVars, genVars, pages_data, merged, saved, raised,
                   end_reason, any_failure, mergeVars, callVars, histVars>>

\* The rest of the try block: the answer built from `results`.
ApiRespond(r) ==
    /\ api[r].pc = "respond"
    /\ api' = [api EXCEPT
                 ![r].response =
                    IF request[r].endpoint = "extract"
                    THEN extract_response(request[r].urls[1], api[r].results)
                    ELSE IF request[r].endpoint = "extract-text"
                    THEN extract_text_response(request[r].urls[1], api[r].results)
                    ELSE batch_response(api[r].results),
                 ![r].pc = "finally"]
    /\ UNCHANGED <<cfgVars, request, sessions, crawler_pool, scrollVars, batch,
                   pc, retryVars, genVars, pages_data, merged, saved, raised,
                   end_reason, any_failure, mergeVars, callVars, histVars>>

\* finally: `if crawler: crawler.cleanup()`, and the response goes out.
ApiFinally(r) ==
    /\ api[r].pc = "finally"
    /\ IF api[r].crawler # <<>>
       THEN LET after == cleanup(api[r].crawler[1], sessions)
            IN  /\ sessions' = after.sessions
                /\ api' = [api EXCEPT ![r].crawler = <<after.crawler>>,
                                      ![r].pc = "done"]
       ELSE /\ api' = [api EXCEPT ![r].pc = "done"]
            /\ UNCHANGED sessions
    /\ UNCHANGED <<cfgVars, request, crawler_pool, scrollVars, batch,
                   pc, retryVars, genVars, pages_data, merged, saved, raised,
                   end_reason, any_failure, mergeVars, callVars, histVars>>

\* ------------------------------------------------- plain crawler lifecycle
\* crawler.setup() of the test: get_driver returns a session, or raises.
PlainSetup ==
    /\ f_name = "lifecycle"
    /\ Len(f_out) = 1
    /\ IF f_arg.get_driver = "ok"
       THEN /\ sessions' = Append(sessions, NewSession(MainRun))
            /\ f_out' = Append(f_out, setup(f_out[1], get_driver(sessions)))
       ELSE /\ f_out' = Append(f_out, f_out[1])
            /\ UNCHANGED sessions
    /\ UNCHANGED <<cfgVars, request, api, crawler_pool, scrollVars, batch,
                   pc, retryVars, genVars, pages_data, merged, saved, raised,
                   end_reason, any_failure, mergeVars, f_name, f_arg, histVars>>

\* crawler.cleanup(), or the end of `with WebCrawler() as crawler:`.
PlainCleanup ==
    /\ f_name = "lifecycle"
    /\ Len(f_out) = 2
    /\ LET after == IF f_arg.leave = "cleanup"
                    THEN cleanup(f_out[2], sessions)
                    ELSE __exit__(f_out[2], sessions)
       IN  /\ sessions' = after.sessions
           /\ f_out' = Append(f_out, after.crawler)
    /\ UNCHANGED <<cfgVars, request, api, crawler_pool, scrollVars, batch,
                   pc, retryVars, genVars, pages_data, merged, saved, raised,
                   end_reason, any_failure, mergeVars, f_name, f_arg, histVars>>

\* ------------------------------------------- sequences of lifecycle calls
\* f_out holds the crawler as each call left it; the next call is the one at
\* position Len(f_out) of the sequence.
NextCall ==
    IF f_name = "calls" /\ Len(f_out) <= Len(f_arg.calls)
    THEN f_arg.calls[Len(f_out)]
    ELSE "none"

\* crawler.setup(): main.py lines 58-85, crawler.py lines 35-44.
CallSetup ==
    /\ NextCall \in {"setup", "setup_raises"}
    /\ LET c == f_out[Len(f_out)]
       IN  IF f_arg.class = "main"
           THEN \E started \in BOOLEAN :
                   LET after == main_setup(c, sessions, NextCall = "setup", started)
                   IN  /\ sessions' = after.sessions
                       /\ f_out' = Append(f_out, after.crawler)
           ELSE IF NextCall = "setup"
           THEN /\ sessions' = Append(sessions, NewSession(MainRun))
                /\ f_out' = Append(f_out, setup(c, get_driver(sessions)))
           ELSE /\ f_out' = Append(f_out, c)
                /\ UNCHANGED sessions
    /\ UNCHANGED <<cfgVars, request, api, crawler_pool, scrollVars, batch,
                   pc, retryVars, genVars, pages_data, merged, saved, raised,
                   end_reason, any_failure, mergeVars, f_name, f_arg, histVars>>

\* crawler.crawl_urls(urls): main.py lines 135-164, crawler.py lines 46-73.
\* The driver the crawler holds, if any, is driven; every error of a URL is
\* caught; no session is created or quit.
CallCrawlUrls ==
    /\ NextCall = "crawl_urls"
    /\ LET c == f_out[Len(f_out)]
       IN  /\ sessions' = IF driver_of(c) # None
                          THEN Used(sessions, driver_of(c), MainRun)
                          ELSE sessions
           /\ f_out' = Append(f_out, c)
    /\ UNCHANGED <<cfgVars, request, api, crawler_pool, scrollVars, batch,
                   pc, retryVars, genVars, pages_data, merged, saved, raised,
                   end_reason, any_failure, mergeVars, f_name, f_arg, histVars>>

\* crawler.cleanup(): main.py lines 87-91, crawler.py lines 75-78.
CallCleanup ==
    /\ NextCall = "cleanup"
    /\ LET c == f_out[Len(f_out)]
           after == IF f_arg.class = "main"
                    THEN main_cleanup(c, sessions)
                    ELSE cleanup(c, sessions)
       IN  /\ sessions' = after.sessions
           /\ f_out' = Append(f_out, after.crawler)
    /\ UNCHANGED <<cfgVars, request, api, crawler_pool, scrollVars, batch,
                   pc, retryVars, genVars, pages_data, merged, saved, raised,
                   end_reason, any_failure, mergeVars, f_name, f_arg, histVars>>

\* ------------------------------------------------------ end of main
\* main (main.py), lines 218-227: crawl_urls has returned; `finally` runs
\* WebCrawler.cleanup, which closes the driver manager; sys.exit(0).
Cleanup ==
    /\ pc = "batch_done"
    /\ sessions' = close(sessions)
    /\ pc' = "exit_0"
    /\ UNCHANGED <<cfgVars, request, api, crawler_pool, scrollVars, batch,
                   retryVars, genVars, pages_data, merged, saved, raised,
                   end_reason, any_failure, mergeVars, callVars, histVars>>

\* ------------------------------------------------------------ _scroll_page
\* The except clause, lines 73-74: the error is logged, the call returns.
ScrollRaises == scroll' = [scroll EXCEPT !.pc = "done", !.ended = "except"]

\* _scroll_page, line 55: the height before the loop.
ScrollFirstHeight ==
    /\ scroll.pc = "start"
    /\ IF Raises(document)
       THEN ScrollRaises /\ UNCHANGED document
       ELSE /\ scroll' = [scroll EXCEPT !.last_height = document.height,
                                        !.measured = <<document.height>>,
                                        !.pc = "scroll"]
            /\ document' = Returned(document)
    /\ UNCHANGED <<cfgVars, apiVars, batch, pc, retryVars, genVars, pages_data,
                   merged, saved, raised, end_reason, any_failure, mergeVars,
                   callVars, histVars>>

\* _scroll_page, lines 59-62: the scroll to the bottom and the sleep.
ScrollToBottom ==
    /\ scroll.pc = "scroll"
    /\ IF Raises(document)
       THEN /\ scroll' = [scroll EXCEPT !.pc = "done", !.ended = "except",
                                        !.scrolled = TRUE,
                                        !.extra = @ \/ scroll.settled]
            /\ UNCHANGED document
       ELSE /\ scroll' = [scroll EXCEPT !.scrolled = TRUE,
                                        !.extra = @ \/ scroll.settled,
                                        !.pc = "measure"]
            /\ document' = scrollTo(Returned(document))
    /\ UNCHANGED <<cfgVars, apiVars, batch, pc, retryVars, genVars, pages_data,
                   merged, saved, raised, end_reason, any_failure, mergeVars,
                   callVars, histVars>>

\* _scroll_page, lines 65-71: the new height, the comparison, the break or
\* the assignment to last_height.
ScrollNewHeight ==
    /\ scroll.pc = "measure"
    /\ IF Raises(document)
       THEN ScrollRaises /\ UNCHANGED document
       ELSE /\ scroll' =
                [scroll EXCEPT
                   !.new_height = document.height,
                   !.measured = <<scroll.measured[Len(scroll.measured)],
                                  document.height>>,
                   !.settled = @ \/ scroll.measured[Len(scroll.measured)]
                                      = document.height,
                   !.last_height = IF converged(document.height, @)
                                   THEN @ ELSE document.height,
                   !.pc = IF converged(document.height, scroll.last_height)
                          THEN "done" ELSE "scroll",
                   !.ended = IF converged(document.height, scroll.last_height)
                             THEN "break" ELSE "none"]
            /\ document' = Returned(document)
    /\ UNCHANGED <<cfgVars, apiVars, batch, pc, retryVars, genVars, pages_data,
                   merged, saved, raised, end_reason, any_failure, mergeVars,
                   callVars, histVars>>

\* ---------------------------------------------------- plugin crawler
\* crawl(url) of the plugin crawler returns.
PluginCrawl ==
    /\ f_name = "crawl"
    /\ f_out = <<>>
    /\ f_out' = <<crawl(f_arg)>>
    /\ UNCHANGED <<cfgVars, apiVars, scrollVars, batch, pc, retryVars, genVars,
                   pages_data, merged, saved, raised, end_reason, any_failure,
                   mergeVars, f_name, f_arg, histVars>>

Next ==
    \/ Setup
    \/ InvokeReturns
    \/ InvokeFailsRetry
    \/ Backoff
    \/ InvokeFailsExhausted
    \/ InvokeFailsUnlisted
    \/ CrawlUrl
    \/ Loop
    \/ Yield
    \/ Resume
    \/ Abandon
    \/ ResolveNext
    \/ ResolveRaises
    \/ Pace
    \/ AfterTraversal
    \/ SaveOk
    \/ SaveFails
    \/ NextUrl
    \/ Merge
    \/ CleanText
    \/ DetectContentType
    \/ FindNextPageLink
    \/ PlainCrawlUrl
    \/ \E r \in Requests : ApiReceive(r)
    \/ \E r \in Requests : ApiSetup(r)
    \/ \E r \in Requests : ApiCrawl(r)
    \/ \E r \in Requests : ApiRespond(r)
    \/ \E r \in Requests : ApiFinally(r)
    \/ PlainSetup
    \/ PlainCleanup
    \/ Cleanup
    \/ ScrollFirstHeight
    \/ ScrollToBottom
    \/ ScrollNewHeight
    \/ PluginCrawl
    \/ CallSetup
    \/ CallCrawlUrls
    \/ CallCleanup

Spec == Init /\ [][Next]_vars

\* _scroll_page alone.  The thread that runs it is never held back: every
\* driver call and the sleep return or raise, so a step that can be taken
\* is taken.
ScrollNext ==
    \/ ScrollFirstHeight
    \/ ScrollToBottom
    \/ ScrollNewHeight

ScrollSpec == InitScroll /\ [][ScrollNext]_vars /\ WF_vars(ScrollNext)

\* A traversal alone, iterated to its end: the steps of scrape_with_pagination
\* and of the retry policy around scrape_page.
TraversalNext ==
    \/ Loop
    \/ InvokeReturns
    \/ InvokeFailsRetry
    \/ Backoff
    \/ InvokeFailsExhausted
    \/ Yield
    \/ Resume
    \/ ResolveNext
    \/ ResolveRaises
    \/ Pace

TraversalSpec == InitTraversal /\ [][TraversalNext]_vars

\* ================================================================ claims
Min(a, b) == IF a <= b THEN a ELSE b

\* The chain of next links the resolver follows from the start page: the
\* site's chain, or the start page alone when the resolver finds no link in
\* the markup of the site.
Chain ==
    IF _find_next_page_link(page_elements(StartUrl)) = None
    THEN [len |-> 1, tail |-> None]
    ELSE [len |-> site.len, tail |-> site.tail]

\* The i-th page of the chain, counted from the start page.
ChainPage(i) ==
    IF i <= Chain.len THEN i
    ELSE Chain.tail + ((i - Chain.len - 1) % (Chain.len - Chain.tail + 1))

\* The first n pages of the chain, as page records.
ChainPrefix(n) == [i \in 1..n |-> PageContent(ChainPage(i))]

\* The number of pages of the chain: endless for a cycle, so capped by cap.
ChainLength(cap) == IF Chain.tail = None THEN Min(Chain.len, cap) ELSE cap

\* C1: for every chain of next links (finite or cyclic) and every pattern of
\* failures, a traversal yields at most MAX_PAGE_DEPTH page records and its
\* page counter never exceeds MAX_PAGE_DEPTH.
C1_DepthCap ==
    /\ Len(pages_data) <= config.MAX_PAGE_DEPTH
    /\ page_count <= config.MAX_PAGE_DEPTH

\* A cyclic chain shorter than the depth cap was followed up to the cap.
C1_Witness ==
    /\ Chain.tail # None
    /\ Chain.len < config.MAX_PAGE_DEPTH
    /\ end_reason = "depth"
    /\ Len(pages_data) = config.MAX_PAGE_DEPTH
    /\ page_count = config.MAX_PAGE_DEPTH

\* C2: when no page fails (none exhausts its retries, the resolver does not
\* raise), a traversal over a chain of L pages yields exactly the first
\* min(L, MAX_PAGE_DEPTH) pages of the chain; it ends because the resolver
\* returned none when L <= MAX_PAGE_DEPTH; a depth of 1 yields 1 page.
C2_ExactCount ==
    end_reason \in {"no_next", "depth"} =>
        /\ pages_data = ChainPrefix(ChainLength(config.MAX_PAGE_DEPTH))
        /\ (Chain.tail = None /\ Chain.len <= config.MAX_PAGE_DEPTH)
               => (end_reason = "no_next" /\ Len(pages_data) = Chain.len)
        /\ config.MAX_PAGE_DEPTH = 1 => Len(pages_data) = 1

\* The scenario of the specification: 3 pages, then none, depth 5.
C2_Witness ==
    /\ Chain = [len |-> 3, tail |-> None]
    /\ config.MAX_PAGE_DEPTH = 5
    /\ end_reason = "no_next"
    /\ ~any_failure
    /\ Len(pages_data) = 3
    /\ pc = "crawl_done"

\* C3: if page k fails on every attempt, the traversal has yielded exactly the
\* records of pages 1..k-1 in order and none for page k, control never returns
\* to a fetch, and no error reaches the caller of the traversal.
C3_PartialResult ==
    end_reason = "exhausted" =>
        /\ pc \in {"gen_done", "save", "crawl_done"}
        /\ calls = config.RETRY_COUNT + 1
        /\ current_url = ChainPage(page_count + 1)
        /\ pages_data = ChainPrefix(page_count)
        /\ raised.kind # "PageLoadError"
        /\ pc = "gen_done" => raised = NoError

\* The scenario of the specification: page 2 of 3 fails, retry count 2.
C3_Witness ==
    /\ Chain = [len |-> 3, tail |-> None]
    /\ config.RETRY_COUNT = 2
    /\ end_reason = "exhausted"
    /\ current_url = 2
    /\ Len(pages_data) = 1
    /\ raised = NoError
    /\ pc = "crawl_done"

\* The wrapper has raised the error of its last permitted attempt.
BudgetExhausted ==
    /\ pc \notin {"invoke", "backoff"}
    /\ last_exception.kind # "none"
    /\ last_exception.at = config.RETRY_COUNT

\* C4: an operation failing with a retryable failure on every attempt is
\* invoked RETRY_COUNT + 1 times, then the error of the last attempt is
\* raised; an attempt that succeeds ends the call, with one invocation per
\* attempt made so far and none after it.
C4_RetryCount ==
    /\ calls <= config.RETRY_COUNT + 1
    /\ pc = "invoke" => calls = attempt
    /\ pc = "backoff" => (calls = attempt + 1 /\ attempt < config.RETRY_COUNT)
    /\ (pc \in {"yield", "save"} \/ (pc = "crawl_url" /\ op = "create_driver"))
           => calls = attempt + 1
    /\ (raised.kind \in exceptions(op) \/ end_reason = "exhausted") =>
        /\ BudgetExhausted
        /\ calls = config.RETRY_COUNT + 1
        /\ attempt = config.RETRY_COUNT
        /\ last_exception.kind \in exceptions(op)
        /\ (~args.handle_pagination) => raised = last_exception

\* A single page failed three times with a budget of two retries.
C4_Witness ==
    /\ config.RETRY_COUNT = 2
    /\ ~args.handle_pagination
    /\ pc = "crawl_done"
    /\ calls = 3
    /\ raised = [kind |-> "PageLoadError", at |-> 2]

C6_UnlistedPropagates ==
    /\ raised.kind \notin exceptions(op) \cup {"none", "DataProcessError"} =>
        /\ calls = raised.at + 1
        /\ Len(backoffs) = raised.at
    /\ pc = "exit" =>
        /\ raised = [kind |-> "WebDriverError", at |-> 0]
        /\ calls = 1
        /\ backoffs = <<>>

\* create_driver failed with retries left, and was not invoked again.
C6_Witness ==
    /\ pc = "exit"
    /\ config.RETRY_COUNT >= 2
    /\ raised.kind = "WebDriverError"
    /\ calls = 1

\* C7: a single-page call whose retry budget is exhausted raises the error to
\* the caller of crawl_url, and nothing is merged or saved for the URL.
C7_SinglePageRaises ==
    (~args.handle_pagination /\ op = "scrape_page" /\ BudgetExhausted) =>
        /\ pc = "crawl_done"
        /\ raised = last_exception
        /\ raised.kind = "PageLoadError"
        /\ saved = <<>>
        /\ merged = <<>>

\* A single page exhausted a budget of one retry.
C7_Witness ==
    /\ ~args.handle_pagination
    /\ url_valid
    /\ config.RETRY_COUNT = 1
    /\ op = "scrape_page"
    /\ BudgetExhausted
    /\ pc = "crawl_done"
    /\ calls = 2

\* C8: merge of the empty list yields the empty result, and crawl_url neither
\* merges nor saves when the traversal yielded no page; a document it merges
\* is never the empty result.
C8_NoEmptyDocument ==
    /\ (m_pc = "merged" /\ m_in = <<>>) => m_out = <<EmptyDict>>
    /\ (m_pc = "merged" /\ m_in # <<>>) => DOMAIN m_out[1] # {}
    /\ (args.handle_pagination /\ pages_data = <<>>) => (merged = <<>> /\ saved = <<>>)
    /\ merged # <<>> => (pages_data # <<>> /\ DOMAIN merged[1] # {})

\* The first page of a traversal exhausted its retries: zero pages, no save.
C8_Witness ==
    /\ args.handle_pagination
    /\ end_reason = "exhausted"
    /\ pages_data = <<>>
    /\ pc = "crawl_done"

\* merge was called directly on the empty list.
C8_WitnessMerge == m_pc = "merged" /\ m_in = <<>>

RECURSIVE JoinBodies(_)
\* The body texts of the pages joined by the blank-line separator.
JoinBodies(pages) ==
    IF Len(pages) = 1 THEN pages[1].body_text
    ELSE pages[1].body_text \o Sep \o JoinBodies(Tail(pages))

\* The main content of a page as the amended claim words it.
MainContent(p) ==
    IF p.body_text # <<>> THEN p.body_text
    ELSE IF Len(p.text_elements) = 0 THEN <<>>
    ELSE IF Len(p.text_elements) = 1 THEN p.text_elements[1]
    ELSE p.text_elements[1] \o Sep \o p.text_elements[2]

RECURSIVE ExpectedBody(_, _)
\* Left to right: the non-empty main contents, a separator between two.
ExpectedBody(pages, acc) ==
    IF pages = <<>> THEN acc
    ELSE LET c == MainContent(pages[1]) IN
         ExpectedBody(Tail(pages),
                      IF c = <<>> THEN acc
                      ELSE IF acc = <<>> THEN c
                      ELSE acc \o Sep \o c)

\* C9 as stated: for every non-empty page sequence the merged body_text is
\* the body texts of all pages joined in order by the blank-line separator
\* (for one page: its body text, even when that is empty).
C9_Original ==
    (m_pc = "merged" /\ m_in # <<>>) => m_out[1].body_text = JoinBodies(m_in)

\* C9 amended: the merged body_text is the non-empty main contents of the
\* pages joined in order by the blank-line separator, the main content of a
\* page being its body text when not empty and otherwise its text elements
\* joined by a blank line; when every body text is non-empty this is the
\* body texts joined, and for one such page its body text.
C9_JoinedMainContent ==
    (m_pc = "merged" /\ m_in # <<>>) =>
        /\ m_out[1].body_text = ExpectedBody(m_in, <<>>)
        /\ (\A i \in DOMAIN m_in : m_in[i].body_text # <<>>)
               => m_out[1].body_text = JoinBodies(m_in)

\* Two pages, the first with an empty body text and two text elements.
C9_Witness ==
    /\ m_pc = "merged"
    /\ Len(m_in) = 2
    /\ m_in[1].body_text = <<>>
    /\ m_in[1].text_elements # <<>>
    /\ m_in[2].body_text = <<"b">>
    /\ m_out[1].body_text = <<"x", "\n", "\n", "y", "\n", "\n", "b">>

\* C10: for every non-empty page sequence of length n the merged document
\* has page_count n, and is_paginated exactly when n > 1.
C10_PageCount ==
    /\ (m_pc = "merged" /\ m_in # <<>>) =>
           /\ m_out[1].page_count = Len(m_in)
           /\ m_out[1].is_paginated <=> (Len(m_in) > 1)
    /\ merged # <<>> =>
           /\ merged[1].page_count = Len(pages_data)
           /\ merged[1].is_paginated <=> (Len(pages_data) > 1)

\* A merge of one page, which is not paginated.
C10_Witness ==
    /\ m_pc = "merged"
    /\ Len(m_in) = 1
    /\ m_out[1].page_count = 1
    /\ ~m_out[1].is_paginated

RECURSIVE ConcatElements(_, _)
\* The text elements of pages i.. of the sequence, one page after the other.
ConcatElements(pages, i) ==
    IF i > Len(pages) THEN <<>>
    ELSE pages[i].text_elements \o ConcatElements(pages, i + 1)

\* C11: the fragments of a merge are the fragment lists of the pages
\* concatenated in page order, order and multiplicity kept, so for every
\* split of the input into non-empty A and B the fragments of merge(A ++ B)
\* are those of merge(A) followed by those of merge(B).
C11_FragmentsConcatenate ==
    (m_pc = "merged" /\ m_in # <<>>) =>
        /\ m_out[1].text_elements = ConcatElements(m_in, 1)
        /\ \A k \in 1..(Len(m_in) - 1) :
              m_out[1].text_elements =
                  merge_paginated_data(SubSeq(m_in, 1, k)).text_elements
                  \o merge_paginated_data(SubSeq(m_in, k + 1, Len(m_in))).text_elements

\* Two pages with the same two fragments: all four are kept, in order.
C11_Witness ==
    /\ m_pc = "merged"
    /\ Len(m_in) = 2
    /\ m_in[1].text_elements = << <<"x">>, <<"y">> >>
    /\ m_in[2].text_elements = << <<"x">>, <<"y">> >>
    /\ m_out[1].text_elements = << <<"x">>, <<"y">>, <<"x">>, <<"y">> >>

Reverse(seq) == [i \in 1..Len(seq) |-> seq[Len(seq) + 1 - i]]

\* C12: the links of a merged document are the union of the links of all
\* pages, each entry once; they do not depend on the order of the pages nor on a page being
\* given twice.
C12_LinkUnion ==
    (m_pc = "merged" /\ m_in # <<>>) =>
        /\ m_out[1].links = {l \in {"l", "m"} : \E i \in DOMAIN m_in : \E j \in DOMAIN m_in[i].links : m_in[i].links[j] = l}
        /\ Range(m_links) = m_out[1].links
        /\ \A i, j \in DOMAIN m_links : m_links[i] = m_links[j] => i = j
        /\ m_out[1].links = merge_paginated_data(Reverse(m_in)).links
        /\ m_out[1].links = merge_paginated_data(m_in \o m_in).links
        /\ \A i \in DOMAIN m_in :
              merge_paginated_data(<<m_in[i], m_in[i]>>).links
                  = merge_paginated_data(<<m_in[i]>>).links

\* A page with links and one without, merged in this order.
C12_Witness ==
    /\ m_pc = "merged"
    /\ Len(m_in) = 2
    /\ m_in[1].links = <<"m", "l", "l">>
    /\ m_in[2].links = <<>>
    /\ m_out[1].links = {"l", "m"}
    /\ m_links = <<"m", "l">>

\* C13: the title of a merged document is the title of the first page,
\* whatever the titles of the later pages.
C13_FirstTitle ==
    /\ (m_pc = "merged" /\ m_in # <<>>) => m_out[1].title = m_in[1].title
    /\ merged # <<>> => merged[1].title = pages_data[1].title

\* Two pages with different titles.
C13_Witness ==
    /\ m_pc = "merged"
    /\ Len(m_in) = 2
    /\ m_in[1].title = <<"A">>
    /\ m_in[2].title = <<"B">>
    /\ m_out[1].title = <<"A">>

\* C14 (as stated): text cleaning is idempotent, cleaning a cleaned string
\* gives the cleaned string again.
C14_Idempotent ==
    (f_name = "_clean_text" /\ Len(f_out) = 2) => f_out[2] = f_out[1]

\* The address, lower-cased, has one of the keywords as a substring.
HasKeyword(url, keywords) ==
    \E w \in keywords : \E i, j \in DOMAIN url : SubSeq(lower(url), i, j) = w

ArticleKeywords == {<<"a", "r", "t", "i", "c", "l", "e">>,
                    <<"p", "o", "s", "t">>,
                    <<"b", "l", "o", "g">>,
                    <<"n", "e", "w", "s">>}
ProductKeywords == {<<"p", "r", "o", "d", "u", "c", "t">>,
                    <<"i", "t", "e", "m">>,
                    <<"s", "h", "o", "p">>,
                    <<"s", "t", "o", "r", "e">>,
                    <<"b", "u", "y">>,
                    <<"p", "r", "i", "c", "e">>}

\* C15: the content type follows a fixed priority: no fragment gives unknown;
\* otherwise an article keyword in the address gives article, whatever else
\* holds; otherwise a product keyword gives product, whatever the list items
\* and forms; otherwise more than 10 list items give list; otherwise a form
\* gives form; otherwise general.
C15_ContentTypePriority ==
    (f_name = "_detect_content_type" /\ f_out # <<>>) =>
        LET art == HasKeyword(f_arg.current_url, ArticleKeywords)
            prod == HasKeyword(f_arg.current_url, ProductKeywords)
        IN /\ f_arg.texts = <<>> => f_out[1] = "unknown"
           /\ (f_arg.texts # <<>> /\ art) => f_out[1] = "article"
           /\ (f_arg.texts # <<>> /\ ~art /\ prod) => f_out[1] = "product"
           /\ (f_arg.texts # <<>> /\ ~art /\ ~prod /\ f_arg.li > 10) =>
                  f_out[1] = "list"
           /\ (f_arg.texts # <<>> /\ ~art /\ ~prod /\ f_arg.li <= 10
                  /\ f_arg.forms > 0) => f_out[1] = "form"
           /\ (f_arg.texts # <<>> /\ ~art /\ ~prod /\ f_arg.li <= 10
                  /\ f_arg.forms = 0) => f_out[1] = "general"

\* An address with a product keyword before an article keyword, on a page
\* with 11 list items and a form, is an article.
C15_Witness ==
    /\ f_name = "_detect_content_type"
    /\ f_arg = [texts |-> <<<<"t">>>>, current_url |-> <<"s", "h", "o", "p", "/", "n", "e", "w", "s">>, li |-> 11,
                forms |-> 1]
    /\ f_out = <<"article">>

\* The patterns whose element is displayed and enabled.
Qualifying(elems) ==
    {k \in DOMAIN elems :
        elems[k].found /\ elems[k].displayed /\ elems[k].enabled}

\* The href the resolver is to return: that of the qualifying pattern no
\* other qualifying pattern precedes, none without a qualifying pattern.
FirstQualifyingHref(elems) ==
    IF Qualifying(elems) = {} THEN None
    ELSE elems[CHOOSE k \in Qualifying(elems) :
                  \A j \in Qualifying(elems) : k <= j].href

\* The page the traversal yielded last.
LastYielded == pages_data[Len(pages_data)].url

\* C16: the resolver returns the href of the first pattern, in list order,
\* whose element is displayed and enabled; a hidden or disabled element is
\* passed over and no later pattern is preferred to a qualifying earlier one.
\* The traversal goes on with exactly that href.
C16_FirstMatchWins ==
    /\ (f_name = "_find_next_page_link" /\ f_out # <<>>) =>
           f_out[1] = FirstQualifyingHref(f_arg)
    /\ pc = "pace" =>
           current_url = FirstQualifyingHref(page_elements(LastYielded))

\* A hidden element of the first pattern is passed over for the link of the
\* fourth pattern.
C16_Witness ==
    /\ f_name = "_find_next_page_link"
    /\ f_arg[1] = Element(FALSE, TRUE, 1)
    /\ f_arg[4] = Element(TRUE, TRUE, 2)
    /\ f_out = <<2>>

\* C17 (as stated): the resolver returns none only if no pattern matches;
\* when some pattern has a displayed and enabled element that carries an
\* href, the resolver returns a URL and the traversal does not end for want
\* of a next link.
C17_NoneOnlyWithoutMatch ==
    /\ (f_name = "_find_next_page_link" /\ f_out # <<>>
          /\ \E k \in Qualifying(f_arg) : f_arg[k].href # None) =>
           f_out[1] # None
    /\ end_reason = "no_next" =>
           \A k \in Qualifying(page_elements(LastYielded)) :
               page_elements(LastYielded)[k].href = None

\* C18: records are produced lazily.  When record k is in the caller's hands
\* (the generator suspended at its yield) k pages have been fetched and the
\* resolver and the pacing wait have run k-1 times: the link of page k is not
\* resolved and page k+1 is not fetched yet.  At no time has the engine
\* fetched more than one page, or resolved more links, beyond the records
\* handed over.  A caller that stops after record k leaves the engine there:
\* no further fetch, resolve or pacing wait.
C18_Lazy ==
    /\ pc \in {"resume", "abandoned"} =>
           /\ work.fetched = Len(pages_data)
           /\ work.resolves = Len(pages_data) - 1
           /\ work.paces = Len(pages_data) - 1
           /\ work.last = "load"
    /\ args.handle_pagination =>
           /\ work.fetched <= Len(pages_data) + 1
           /\ work.resolves <= Len(pages_data)
           /\ work.paces <= work.resolves
    /\ (pc = "abandoned" /\ ENABLED Next) => FALSE

\* The caller stopped after the first record of a site of at least two
\* pages: one fetch, no resolve, no pacing wait.
C18_Witness ==
    /\ pc = "abandoned"
    /\ Chain.len >= 2
    /\ Len(pages_data) = 1
    /\ work = [fetched |-> 1, resolves |-> 0, paces |-> 0, last |-> "load"]

\* C19: after a page whose next link was found, a pacing wait of a duration
\* within config.WAIT_BETWEEN_PAGES happens before the next page is fetched:
\* when the loop comes back to its test, and whenever a later page is being
\* fetched, as many pacing waits as links found have happened, the last of
\* them within the range and, at the test, the last wait of all.  When no
\* next link was found the traversal ended without a pacing wait after the
\* last page.
C19_PacingWait ==
    /\ (pc = "loop" /\ page_count > 0) =>
           /\ work.last = "pace"
           /\ work.paces = page_count
    /\ (pc \in {"invoke", "backoff"} /\ op = "scrape_page"
          /\ args.handle_pagination) => work.paces = page_count
    /\ work.paces > 0 =>
           /\ pace_wait >= config.WAIT_BETWEEN_PAGES[1]
           /\ pace_wait <= config.WAIT_BETWEEN_PAGES[2]
    /\ end_reason = "no_next" =>
           /\ work.paces = page_count - 1
           /\ work.last = "load"

\* Two pages: a pacing wait of 2 within (1, 2) after the first, whose link
\* was found, and none after the second, which has no link.
C19_Witness ==
    /\ end_reason = "no_next"
    /\ config.WAIT_BETWEEN_PAGES = <<1, 2>>
    /\ page_count = 2
    /\ work.paces = 1
    /\ pace_wait = 2
    /\ work.last = "load"

\* C20: in a batch every URL is attempted exactly once and in input order,
\* whatever happened to the URLs before it: the calls of crawl_url begun are
\* the URLs 1, 2, ... in order, one outcome is counted for each call that
\* ended, and the batch ends only when all URLs were attempted, a rejected
\* URL or a raised exception among them or not.  The same for the passes of
\* the plain crawler's loop.
C20_BatchContinues ==
    /\ \A i \in DOMAIN batch.attempted : batch.attempted[i] = i
    /\ Len(batch.attempted) <= Len(args.urls)
    /\ batch.successful + batch.failed = Len(batch.outcomes)
    /\ Len(batch.outcomes) \in {Len(batch.attempted) - 1, Len(batch.attempted)}
    /\ pc = "batch_done" =>
           /\ Len(batch.attempted) = Len(args.urls)
           /\ Len(batch.outcomes) = Len(args.urls)
    /\ f_name = "crawl_urls" =>
           /\ \A i \in DOMAIN f_out : f_out[i].url = i
           /\ (~ENABLED Next) => Len(f_out) = Len(f_arg)

\* The first URL of two failed (crawl_url raised), the second was crawled.
C20_Witness ==
    /\ pc = "batch_done"
    /\ args.urls = <<TRUE, TRUE>>
    /\ batch.outcomes = <<"failed", "ok">>
    /\ batch.attempted = <<1, 2>>
    /\ batch.failed = 1
    /\ batch.successful = 1

\* The plain crawler: the first URL of two failed, the second was appended.
C20_WitnessPlain ==
    /\ f_name = "crawl_urls"
    /\ f_arg = <<"WebDriverException", "ok">>
    /\ f_out = <<[url |-> 1, appended |-> FALSE], [url |-> 2, appended |-> TRUE]>>

\* ------------------------------------------------------ C21 .. C30
\* The requests whose handler has sent its response.
Answered(r) == api[r].pc = "done"

\* The sessions created for `owner`.
SessionsOf(owner) == {i \in DOMAIN sessions : sessions[i].owner = owner}

\* C21: the answer to a batch of n URLs that was crawled carries n per-URL
\* entries, one for each submitted URL, a failed URL included.
C21_BatchReportsEveryUrl ==
    \A r \in Requests :
        (Answered(r) /\ request[r].endpoint = "batch"
            /\ api[r].response.status = 200) =>
            /\ Len(api[r].response.results) = Len(request[r].urls)
            /\ api[r].response.count = Len(request[r].urls)

\* C22: when an API request has been answered, or the command-line run has
\* ended, every browser session created for it has been quit, whatever the
\* path: a success, an error response, an exception after the session was
\* created.
C22_SessionsQuit ==
    /\ \A r \in Requests :
          Answered(r) => \A i \in SessionsOf(r) : sessions[i].quit
    /\ pc \in {"exit", "exit_0"} =>
          \A i \in SessionsOf(MainRun) : sessions[i].quit
    /\ \A r \in Requests :
          api[r].pc \in {"crawl", "respond"} =>
              /\ api[r].crawler # <<>>
              /\ api[r].crawler[1].driver \in SessionsOf(r)

\* An extract-text request whose URL loaded: the handler raised after its
\* session was created, answered 500, and the session was quit.
C22_Witness ==
    /\ Answered("r1")
    /\ request["r1"].endpoint = "extract-text"
    /\ api["r1"].response.status = 500
    /\ api["r1"].results # <<>>
    /\ SessionsOf("r1") # {}
    /\ \A i \in SessionsOf("r1") : sessions[i].quit

\* A command-line run of two URLs has ended and its session was quit.
C22_WitnessMain ==
    /\ pc = "exit_0"
    /\ Len(batch.outcomes) = 2
    /\ SessionsOf(MainRun) # {}
    /\ \A i \in SessionsOf(MainRun) : sessions[i].quit

C24_ScrollTerminates == (scroll.pc = "start") ~> (scroll.pc = "done")

\* C25: after cleanup(), called directly after setup or by leaving the
\* `with` block, the crawler holds no driver.
C25_NoDriverAfterCleanup ==
    (f_name = "lifecycle" /\ Len(f_out) = 3) => f_out[3].driver = None

\* The number of "ok" among the first n outcomes of loads.
Loaded(loads, n) == Cardinality({i \in 1..n : loads[i] = "ok"})

\* The entries of a pass history that were appended to `results`.
Appended(passes) == SelectSeq(passes, LAMBDA e : e.appended)

\* C26: crawl_urls returns one result for each URL that loaded and none for
\* a URL that failed, in input order, each with the URL it was asked for; a
\* failing URL raises nothing: the loop goes on to the end of the list.
C26_OneResultPerLoadedUrl ==
    /\ f_name = "crawl_urls" =>
          /\ Len(Appended(f_out)) = Loaded(f_arg, Len(f_out))
          /\ \A i \in DOMAIN f_out :
                /\ f_out[i].url = i
                /\ f_out[i].appended <=> f_arg[i] = "ok"
          /\ (~ENABLED PlainCrawlUrl) => Len(f_out) = Len(f_arg)
    /\ \A r \in Requests :
          api[r].pc \in {"respond", "finally", "done"}
              /\ api[r].crawler # <<>> /\ api[r].crawler[1].driver # None =>
              LET res == api[r].results
                  urls == request[r].urls
              IN  /\ Len(res) = Loaded(request[r].loads, Len(urls))
                  /\ \A i \in DOMAIN res :
                        /\ res[i].url \in {urls[k] : k \in DOMAIN urls}
                        /\ request[r].loads[res[i].url] = "ok"
                        /\ res[i].title = title_of(res[i].url)
                  /\ \A i, j \in DOMAIN res : i < j => res[i].url < res[j].url

\* Two URLs, the first failed to load and the second loaded:
\* the call returned the result of the second alone.
C26_Witness ==
    /\ f_name = "crawl_urls"
    /\ f_arg = <<"WebDriverException", "ok">>
    /\ Len(f_out) = 2
    /\ Appended(f_out) = <<[url |-> 2, appended |-> TRUE]>>

\* C27: a request to /api/extract whose body is empty, or whose url is
\* missing or not a string, is answered 400 with an error, and no crawler and
\* no browser session is created for it.
C27_BadRequest ==
    \A r \in Requests :
        (request[r].endpoint = "extract"
            /\ request[r].data \in {"no_data", "missing", "empty", "number", "list"}) =>
            /\ api[r].crawler = <<>>
            /\ SessionsOf(r) = {}
            /\ api[r].pc \in {"received", "finally", "done"}
            /\ api[r].pc # "received" =>
                  /\ api[r].response.status = 400
                  /\ api[r].response.state = "error"

\* A request to /api/extract without a url has been answered 400 while
\* another request holds a session.
C27_Witness ==
    /\ request["r1"].endpoint = "extract"
    /\ request["r1"].data = "missing"
    /\ Answered("r1")
    /\ api["r1"].response.status = 400
    /\ SessionsOf("r2") # {}

\* C28: a request to /api/extract-text with a URL that loads is answered
\* 200, "success", with the requested url, the page title and the
\* text_content of the selected element.
C28_ExtractTextSuccess ==
    \A r \in Requests :
        (Answered(r) /\ request[r].endpoint = "extract-text"
            /\ request[r].data = "string" /\ request[r].get_driver = "ok"
            /\ request[r].loads[1] = "ok") =>
            /\ api[r].response.status = 200
            /\ api[r].response.state = "success"
            /\ api[r].response.url = request[r].urls[1]
            /\ api[r].response.title = title_of(request[r].urls[1])
            /\ api[r].response.text_content # <<>>

\* The calls of crawl made for one layer.
CallsOf(res, layer) == {i \in DOMAIN res.calls : res.calls[i][1] = layer}

\* The place of a layer in the order input, fetch, parse, api.
Rank(layer) ==
    CASE layer = "input" -> 1 [] layer = "fetch" -> 2
      [] layer = "parse" -> 3 [] layer = "api" -> 4

\* The registry of a plugin layer.
RegistryOf(a, layer) ==
    CASE layer = "input" -> a.input_plugins
      [] layer = "parse" -> a.parse_plugins
      [] layer = "api" -> a.api_plugins

\* C29: in each plugin layer crawl applies at most one plugin, the first in
\* registry order whose can_handle(url) is true, never a later one; and the
\* layers run in the order input, fetch, parse, api.
C29_FirstPluginPerLayer ==
    (f_name = "crawl" /\ f_out # <<>>) =>
        LET res == f_out[1]
        IN  /\ \A layer \in {"input", "parse", "api"} :
                  /\ Cardinality(CallsOf(res, layer)) <= 1
                  /\ \A i \in CallsOf(res, layer) :
                        LET p == res.calls[i][2]
                            reg == RegistryOf(f_arg, layer)
                        IN  /\ p \in DOMAIN reg
                            /\ reg[p]
                            /\ \A q \in 1..(p - 1) : ~reg[q]
            /\ \A i, j \in DOMAIN res.calls :
                  i < j => Rank(res.calls[i][1]) < Rank(res.calls[j][1])
            /\ \A i \in DOMAIN res.steps :
                  \E j \in DOMAIN res.calls : res.calls[j] = res.steps[i]
            /\ res.status = "success" =>
                  /\ res.steps = res.calls
                  /\ \A layer \in {"input", "parse", "api"} :
                        (\E q \in DOMAIN RegistryOf(f_arg, layer) :
                            RegistryOf(f_arg, layer)[q])
                            => CallsOf(res, layer) # {}
                  /\ CallsOf(res, "fetch") # {}

\* Every layer has two plugins, the first input plugin cannot handle the
\* URL, both parse plugins and both api plugins can: the second input
\* plugin and the first parse and api plugins were applied.
C29_Witness ==
    /\ f_name = "crawl"
    /\ f_out # <<>>
    /\ f_arg.input_plugins = <<FALSE, TRUE>>
    /\ f_arg.parse_plugins = <<TRUE, TRUE>>
    /\ f_arg.api_plugins = <<TRUE, TRUE>>
    /\ f_out[1].steps = <<<<"input", 2>>, <<"fetch", None>>, <<"parse", 1>>,
                          <<"api", 1>>>>
    /\ f_out[1].status = "success"

\* C30: the loop issues a scroll before every comparison, and so at least
\* one before it can end; the height a new measurement is compared with is
\* the measurement before it; the loop ends by `break` exactly when two
\* measurements one scroll apart are equal, at the first such pair, and no
\* scroll is issued after that pair.
C30_ScrollUntilEqual ==
    /\ (scroll.pc = "measure" \/ scroll.ended = "break") => scroll.scrolled
    /\ scroll.pc \in {"scroll", "measure"} =>
          scroll.last_height = scroll.measured[Len(scroll.measured)]
    /\ scroll.settled <=> scroll.ended = "break"
    /\ scroll.ended = "break" =>
          /\ scroll.pc = "done"
          /\ Len(scroll.measured) = 2
          /\ scroll.measured[1] = scroll.measured[2]
          /\ scroll.new_height = scroll.last_height
    /\ ~scroll.extra

\* A page that grew at least twice and then stayed: the loop has ended on
\* the first two equal heights.
C30_Witness ==
    /\ scroll.ended = "break"
    /\ scroll.measured = <<4, 4>>
    /\ scroll.scrolled
    /\ document.more = 0

\* C31: the records a traversal has handed to its caller are the pages
\* fetched with success, in fetch order and once each, however many attempts
\* a page took; attempts on the page being fetched have produced no record;
\* and the page counter equals the number of records yielded, except between
\* a yield and its resumption, where the last record is not yet counted.
C31_RecordsAreFetchedPages ==
    /\ pages_data = ChainPrefix(Len(pages_data))
    /\ Len(pages_data) <= work.fetched
    /\ (args.handle_pagination /\ op = "scrape_page"
            /\ (pc \in {"invoke", "backoff", "yield"} \/ end_reason = "exhausted"))
           => Len(pages_data) = work.fetched - 1
    /\ pc \in {"resume", "abandoned"} =>
        /\ Len(pages_data) = work.fetched
        /\ page_count = Len(pages_data) - 1
    /\ pc \notin {"resume", "abandoned"} => page_count = Len(pages_data)

\* The second page failed once, succeeded on its second attempt, was yielded
\* and the yield was resumed.
C31_Witness ==
    /\ pc = "resolve"
    /\ calls = 2
    /\ last_exception.kind = "PageLoadError"
    /\ page_count = 2
    /\ pages_data = ChainPrefix(2)

\* C32: merge_paginated_data leaves every page record of its argument as it
\* was: after the call each page has the title, body text, fragment list and
\* link list it had before, the first page (the base of the document)
\* included.
C32_MergeKeepsInputs ==
    m_pc = "merged" =>
        /\ Len(m_pages) = Len(m_in)
        /\ \A i \in DOMAIN m_in :
              /\ DOMAIN m_pages[i] = DOMAIN m_in[i]
              /\ m_pages[i].title = m_in[i].title
              /\ m_pages[i].body_text = m_in[i].body_text
              /\ m_pages[i].text_elements = m_in[i].text_elements
              /\ m_pages[i].links = m_in[i].links

\* Two pages were merged into a document whose body text, fragments and
\* links all differ from those of the first page.
C32_Witness ==
    /\ m_pc = "merged"
    /\ Len(m_in) = 2
    /\ m_out[1].body_text # m_in[1].body_text
    /\ m_out[1].text_elements # m_in[1].text_elements
    /\ m_links # m_in[1].links
    /\ m_pages[1] = m_in[1]

\* C33: whatever fails while a page is loaded or extracted, the retry policy
\* of scrape_page sees a PageLoadError: with attempts left it waits and
\* invokes scrape_page again, which navigates to the page again, also when
\* it was the extraction that failed; on the last attempt the PageLoadError
\* leaves the policy.
C33_EveryFailureRetried ==
    [][/\ (pc = "invoke" /\ op = "scrape_page") =>
            /\ calls' = calls + 1
            /\ \/ pc' \in {"yield", "save"}
               \/ /\ last_exception' = [kind |-> "PageLoadError", at |-> attempt]
                  /\ IF attempt < config.RETRY_COUNT
                     THEN pc' = "backoff"
                     ELSE pc' \in {"gen_done", "crawl_done"}
       /\ (pc = "backoff" /\ op = "scrape_page") =>
            /\ pc' = "invoke"
            /\ attempt' = attempt + 1
            /\ op' = "scrape_page"]_vars

\* The first page was loaded, its extraction failed, and with attempts left
\* the policy is about to invoke scrape_page again.
C33_Witness ==
    /\ pc = "backoff"
    /\ op = "scrape_page"
    /\ work.fetched = 1
    /\ calls = 1
    /\ work.last = "load"
    /\ last_exception = [kind |-> "PageLoadError", at |-> 0]

\* C34: when the lookup of the next link of page k raises, the traversal ends
\* there: no error reaches the caller of the traversal, the lookup is not
\* made again, no further page is fetched, and the caller holds the records
\* of pages 1..k.
C34_ResolverFailureEndsQuietly ==
    end_reason = "resolver_error" =>
        /\ pc \in {"gen_done", "save", "crawl_done"}
        /\ pc \in {"gen_done", "save"} => raised = NoError
        /\ raised.kind \in {"none", "DataProcessError"}
        /\ page_count >= 1
        /\ current_url = ChainPage(page_count)
        /\ pages_data = ChainPrefix(page_count)
        /\ work.resolves = page_count
        /\ work.fetched = page_count

\* The lookup on the second page raised; the two records were merged and
\* saved, and crawl_url returned.
C34_Witness ==
    /\ end_reason = "resolver_error"
    /\ pc = "crawl_done"
    /\ page_count = 2
    /\ Len(pages_data) = 2
    /\ saved # <<>>
    /\ raised = NoError

\* C35: the retry budget is per page and fresh for every page: a traversal
\* makes at most MAX_PAGE_DEPTH * (RETRY_COUNT + 1) navigations, at most
\* RETRY_COUNT + 1 of them for one page, and a page is given up only after
\* RETRY_COUNT + 1 attempts of its own, however many attempts earlier pages
\* have used.
C35_BudgetPerPage ==
    /\ navigations <= config.MAX_PAGE_DEPTH * (config.RETRY_COUNT + 1)
    /\ navigations <= work.fetched * (config.RETRY_COUNT + 1)
    /\ work.fetched <= config.MAX_PAGE_DEPTH
    /\ calls <= config.RETRY_COUNT + 1
    /\ (pc = "invoke" /\ calls = 0) => attempt = 0
    /\ pc = "invoke" => attempt <= config.RETRY_COUNT
    /\ end_reason = "exhausted" => calls = config.RETRY_COUNT + 1
    /\ (op = "scrape_page" /\ pc \notin {"invoke", "backoff"} /\ end_reason # "exhausted")
           => navigations >= work.fetched

\* The first page used its whole budget and succeeded on the last attempt;
\* the second page still got RETRY_COUNT + 1 attempts before it was given
\* up: the bound is met.
C35_Witness ==
    /\ config.RETRY_COUNT = 2
    /\ config.MAX_PAGE_DEPTH = 2
    /\ end_reason = "exhausted"
    /\ work.fetched = 2
    /\ Len(pages_data) = 1
    /\ calls = config.RETRY_COUNT + 1
    /\ navigations = config.MAX_PAGE_DEPTH * (config.RETRY_COUNT + 1)

\* C36: when connecting to the remote WebDriver fails with a
\* WebDriverException on every attempt, create_driver has been attempted
\* RETRY_COUNT + 1 times when the failure reaches the caller of setup as a
\* WebDriverError.
C36_CreateDriverRetried ==
    (pc = "exit" /\ op = "create_driver" /\ raised.kind = "WebDriverError")
        => calls = config.RETRY_COUNT + 1

\* C37: when a sequence of setup, crawl_urls and cleanup calls on one crawler
\* has ended with cleanup, every browser session that was created has been
\* quit, also when setup was called more than once or raised part-way.
C37_NoSessionLeaked ==
    (f_name = "calls" /\ Len(f_out) = Len(f_arg.calls) + 1)
        => \A i \in DOMAIN sessions : sessions[i].quit

\* C38: after crawl_urls over n URLs, successful + failed = n, and a URL is
\* counted successful only if at least one of its pages was fetched and
\* saved: a URL that validate_url rejects is counted failed, and crawl_url
\* raises (so that crawl_urls counts the URL failed) whenever it ends with
\* nothing saved, as for a paginated URL whose first page exhausts its
\* retries.
C38_SuccessMeansSaved ==
    /\ pc = "batch_done" =>
           batch.successful + batch.failed = Len(args.urls)
    /\ \A i \in DOMAIN batch.outcomes :
           ~args.urls[i] => batch.outcomes[i] = "failed"
    /\ (pc = "crawl_done" /\ saved = <<>>) => raised # NoError

\* C39: the document crawl_url persists for a paginated traversal has the
\* body_text merge_paginated_data produced: the texts of the pages in page
\* order, still separated from each other by the blank-line separator.
C39_SavedKeepsSeparators ==
    (args.handle_pagination /\ saved # <<>>) =>
        /\ saved[1].body_text = merged[1].body_text
        /\ saved[1].body_text =
               Join([i \in DOMAIN pages_data |-> pages_data[i].body_text], Sep)

====
